---- MODULE Spec2Model ----
(***************************************************************************)
(* Test-prep coach backend: the tool-calling loop of TestPrepAgent, its    *)
(* response post-processor, the conversation orchestrator and the          *)
(* in-memory store they work on.                                           *)
(*                                                                         *)
(* The OpenAI client used by _process_with_tools is the synchronous one    *)
(* and is called without await, so a request never yields between the      *)
(* entry of handle_message and its return: one request is active at a      *)
(* time, and its steps are the only steps taken while it runs.             *)
(*                                                                         *)
(* Spec follows one request from its arrival to the return of              *)
(* handle_message. The model service is the environment: each invocation   *)
(* answers with a text, requests tool calls, or raises.                    *)
(***************************************************************************)
EXTENDS Integers, Sequences, FiniteSets, TLC

\* ------------------------------------------------------------------ bounds
\* tool calls the model may put in one response
MaxCallsPerRound == 2
\* responses of a turn in which the model departs from its default request
\* (one DefaultCall, no text beside it)
MaxVariedRounds == 1

\* turns already stored for session s1 when a request arrives
MaxStoredTurns == 6

\* tool calls of a turn whose result process_message returns in one step
MaxToolsUsed == 2

\* questions in the largest catalog loaded from sample_questions.json
MaxCatalog == 11

\* quizzes generated through POST /user/{user_id}/quiz/generate
MaxQuizzes == 2

\* responses in the body of one POST /user/{user_id}/quiz/submit
MaxResponses == 3

\* chat turns served in one run of the store over many operations
MaxTurns == 2

\* --------------------------------------------------------------- constants
max_iterations == 5
max_context_turns == 10
\* conversation_history[-10:] in process_message
limited_history_len == 10

\* ------------------------------------------------------------ python values
\* str is a sequence of words; Optional[str] is PyNone or PyStr(words)
PyNone == [isNone |-> TRUE, words |-> <<>>]
PyStr(w) == [isNone |-> FALSE, words |-> w]

\* str.lower(), word by word
LowerWord(w) ==
  CASE w = "COULDN'T FIND" -> "couldn't find"
    [] w = "No Test" -> "no test"
    [] w = "Analyze" -> "analyze"
    [] w = "I" -> "i"
    [] w = "Great progress so far" -> "great progress so far"
    [] w = "How do I study" -> "how do i study"
    [] w = "I want to improve" -> "i want to improve"
    [] w = "Give me a quiz" -> "give me a quiz"
    [] w = "Would you like" -> "would you like"
    [] w = "You scored" -> "you scored"
    [] w = "I've created a personalized quiz for you with" ->
         "i've created a personalized quiz for you with"
    [] w = "It focuses on" -> "it focuses on"
    [] w = "The quiz covers:" -> "the quiz covers:"
    [] w = "Ready to start when you are!" -> "ready to start when you are!"
    [] w = "I found your latest test results! You scored" ->
         "i found your latest test results! you scored"
    [] w = "Here's your breakdown:" -> "here's your breakdown:"
    [] w = "Your strongest areas are Reading and Writing. Let's focus on improving your Math sections (Algebra and Geometry) to boost your overall score!" ->
         "your strongest areas are reading and writing. let's focus on improving your math sections (algebra and geometry) to boost your overall score!"
    [] w = "Reading" -> "reading"
    [] w = "Writing" -> "writing"
    [] w = "Reasoning" -> "reasoning"
    [] w = "Algebra" -> "algebra"
    [] w = "Geometry" -> "geometry"
    [] w = "I apologize, but there's an authentication" ->
         "i apologize, but there's an authentication"
    [] w = "the API. Please check your API key configuration in the .env file." ->
         "the api. please check your api key configuration in the .env file."
    [] w = "I encountered an API error (code" -> "i encountered an api error (code"
    [] w = "N/A" -> "n/a"
    [] w = "). Please try again later." -> "). please try again later."
    [] w = "I encountered an error with the AI service. Please try again." ->
         "i encountered an error with the ai service. please try again."
    [] w = "I apologize, but I encountered an error. Let's try that again." ->
         "i apologize, but i encountered an error. let's try that again."
    [] w = "Hey" -> "hey"
    [] w = "Suzy" -> "suzy"
    [] w = "Well done on that last exam!" -> "well done on that last exam!"
    [] w = "You scored a" -> "you scored a"
    [] w = "which is a marked improvement but I think there's still room to grow." ->
         "which is a marked improvement but i think there's still room to grow."
    [] w = "You got this!" -> "you got this!"
    [] w = "Ready to ace your" -> "ready to ace your"
    [] w = "ABC Certification" -> "abc certification"
    [] OTHER -> w

Lower(s) == [i \in DOMAIN s |-> LowerWord(s[i])]

\* keyword in text
Contains(s, keyword) == \E i \in DOMAIN s : s[i] = keyword

no_data_keywords ==
  {"haven't taken", "no test", "no results", "couldn't find", "could not find",
   "didn't find", "unable to find", "issue finding", "don't have any results",
   "hiccup", "issue with", "not being recognized", "verify your user"}

ClaimedError(s) == \E keyword \in no_data_keywords : Contains(Lower(s), keyword)

\* texts the model may answer with; message.content is a str the service
\* chooses, the empty one included
LLMTexts ==
  { <<>>,
    <<"Great progress so far">>,
    <<"I", "COULDN'T FIND", "your results">> }

\* ------------------------------------------------------------------- store
\* _get_default_users, restricted to the fields the modelled tools read
DefaultUsers ==
  [u \in {"mock-user"} |->
     [user_id |-> "mock-user", email |-> "student@example.com", name |-> "Suzy",
      test_type |-> "ABC Certification", study_hours_per_week |-> 10]]

\* the question catalog loaded by _load_sample_questions
Questions ==
  << [question_id |-> "q1", test_type |-> "ABC Certification", section |-> "math",
      topic |-> "algebra", difficulty |-> "easy", correct_answer |-> "B"],
     [question_id |-> "q2", test_type |-> "ABC Certification", section |-> "reading",
      topic |-> "inference", difficulty |-> "medium", correct_answer |-> "C"] >>

\* store.test_results after _seed_sample_data; add_test_result has no caller
SeedSections ==
  << [name |-> "reading", score |-> 240, percentile |-> 85],
     [name |-> "writing", score |-> 220, percentile |-> 74],
     [name |-> "reasoning", score |-> 140, percentile |-> 75],
     [name |-> "algebra", score |-> 100, percentile |-> 25],
     [name |-> "geometry", score |-> 100, percentile |-> 25] >>

TestResults ==
  [u \in {"mock-user"} |->
     << [test_id |-> "t1", test_type |-> "SAT", total_score |-> 800,
         sections |-> SeedSections, completion_status |-> "completed"] >>]

\* store.quiz_responses after _seed_sample_data: one response per question
\* of questions[:10], wrong for i % 3 = 0
_seed_sample_data(qs) ==
  [u \in {"mock-user"} |->
     [i \in 1..(IF Len(qs) < 10 THEN Len(qs) ELSE 10) |->
        [quiz_id |-> "sample-quiz-1",
         question_id |-> qs[i].question_id,
         user_answer |-> IF (i - 1) % 3 # 0 THEN qs[i].correct_answer ELSE "A",
         is_correct |-> (i - 1) % 3 # 0,
         topic |-> qs[i].topic,
         difficulty |-> qs[i].difficulty]]]

SeedResponses == _seed_sample_data(Questions)

VARIABLES
  questions,             \* store.questions: the catalog, a list
  users,                 \* store.users: user_id -> record
  quiz_responses,        \* store.quiz_responses: user_id -> list
  quizzes,               \* store.quizzes: quiz_id -> quiz data
  conversation_history   \* store.conversation_history: session_id -> list

\* MemoryStore.get_user
get_user(us, user_id) ==
  IF user_id \in DOMAIN us THEN <<us[user_id]>> ELSE <<>>

\* MemoryStore.get_test_results
get_test_results(user_id) ==
  IF user_id \in DOMAIN TestResults THEN TestResults[user_id] ELSE <<>>

\* MemoryStore.get_quiz_responses
get_quiz_responses(qr, user_id) ==
  IF user_id \in DOMAIN qr THEN qr[user_id] ELSE <<>>
\* ----------------------------------------------------------------- helpers
Min(a, b) == IF a < b THEN a ELSE b

\* dict.get(key) is truthy, for the keys whose values are booleans or ids
HasKey(d, k) == k \in DOMAIN d

\* d with d[k] = v added or overwritten
DictSet(d, k, v) == [x \in (DOMAIN d) \cup {k} |-> IF x = k THEN v ELSE d[x]]

\* int(size * tenths / 10): truncation toward zero
IntOfTenths(size, tenths) ==
  IF size >= 0 THEN (size * tenths) \div 10 ELSE 0 - (((0 - size) * tenths) \div 10)

\* random.sample(population, k), k >= 0: every list of k elements taken at
\* distinct positions
Sample(population, k) ==
  { [i \in 1..k |-> population[f[i]]] :
      f \in { g \in [1..k -> 1..Len(population)] :
                \A i, j \in 1..k : i # j => g[i] # g[j] } }

\* random.shuffle
Shuffle(list) == Sample(list, Len(list))

\* the store as the tools see it
StoreRec == [questions |-> questions, users |-> users, quiz_responses |-> quiz_responses,
             quizzes |-> quizzes]

\* a tool's return: its payload and the store it leaves
Returned(result, S) == [raised |-> FALSE, result |-> result, store |-> S]
\* a tool raising: _execute_tool turns str(e) into the payload
Raised(exc, S) == [raised |-> TRUE, result |-> [error |-> exc], store |-> S]

\* ------------------------------------------------------------------- tools
\* MemoryStore.get_questions
get_questions(qs, filters, limit) ==
  LET f1 == IF HasKey(filters, "test_type")
            THEN SelectSeq(qs, LAMBDA q : q.test_type = filters.test_type)
            ELSE qs
      f2 == IF HasKey(filters, "section")
            THEN SelectSeq(f1, LAMBDA q : q.section = filters.section)
            ELSE f1
  IN  SubSeq(f2, 1, Min(limit, Len(f2)))

\* tools.user_profile.get_user_profile
get_user_profile(S, user_id) ==
  LET user == get_user(S.users, user_id)
  IN  IF user = <<>>
      THEN {Returned([error |-> "User not found", user_id |-> user_id], S)}
      ELSE {Returned([user_id |-> user[1].user_id, name |-> user[1].name,
                      email |-> user[1].email, test_type |-> user[1].test_type,
                      study_hours_per_week |-> user[1].study_hours_per_week], S)}

\* an update that applies every key of updates
update_user_profile_unfiltered(S, user_id, updates) ==
  LET safe_keys == DOMAIN updates
      updated(u) == [k \in (DOMAIN u) \cup safe_keys |->
                       IF k \in safe_keys THEN updates[k] ELSE u[k]]
  IN  IF user_id \in DOMAIN S.users
      THEN {Returned([success |-> TRUE, message |-> "Profile updated successfully",
                      updated_fields |-> safe_keys],
                     [S EXCEPT !.users[user_id] = updated(@)])}
      ELSE {Returned([error |-> "User not found", user_id |-> user_id,
                      success |-> FALSE], S)}

\* tools.user_profile.update_user_profile with MemoryStore.update_user
update_user_profile(S, user_id, updates) ==
  LET safe_keys == (DOMAIN updates) \ {"user_id", "email"}
      updated(u) == [k \in (DOMAIN u) \cup safe_keys |->
                       IF k \in safe_keys THEN updates[k] ELSE u[k]]
  IN  IF user_id \in DOMAIN S.users
      THEN {Returned([success |-> TRUE, message |-> "Profile updated successfully",
                      updated_fields |-> safe_keys],
                     [S EXCEPT !.users[user_id] = updated(@)])}
      ELSE {Returned([error |-> "User not found", user_id |-> user_id,
                      success |-> FALSE], S)}

\* tools.performance_analysis.get_latest_test_results (test_id not given)
get_latest_test_results(S, user_id) ==
  LET test_results == get_test_results(user_id)
      test == test_results[Len(test_results)]
  IN  IF test_results = <<>>
      THEN {Returned([error |-> "No test results found for user", user_id |-> user_id,
                      message |-> "No test results found. Make sure you have taken a practice test."], S)}
      ELSE {Returned([success |-> TRUE, test_id |-> test.test_id,
                      test_type |-> test.test_type, total_score |-> test.total_score,
                      sections |-> test.sections,
                      completion_status |-> test.completion_status,
                      message |-> "Test results found successfully"], S)}

\* tools.performance_analysis.generate_bar_chart_data (test_id not given);
\* the bars are the sections, their order and colours left out
generate_bar_chart_data(S, user_id) ==
  LET test_results == get_test_results(user_id)
      test == test_results[Len(test_results)]
  IN  IF test_results = <<>>
      THEN {Returned([error |-> "No test results found", user_id |-> user_id], S)}
      ELSE IF test.sections = <<>>
      THEN {Returned([error |-> "No section data available"], S)}
      ELSE {Returned([test_id |-> test.test_id, test_type |-> test.test_type,
                      total_score |-> test.total_score,
                      bars |-> {sec.name : sec \in {test.sections[i] : i \in DOMAIN test.sections}},
                      y_axis_label |-> "Score", x_axis_label |-> "Subject"], S)}

\* tools.explanations.get_question_explanation
get_question_explanation(S, question_id) ==
  LET found == SelectSeq(S.questions, LAMBDA q : q.question_id = question_id)
  IN  IF found = <<>>
      THEN {Returned([error |-> "Question not found"], S)}
      ELSE {Returned([question_id |-> found[1].question_id, topic |-> found[1].topic,
                      correct_answer |-> found[1].correct_answer], S)}
\* the distinct elements of a list, in order of first occurrence
RECURSIVE Dedup(_)
Dedup(list) ==
  IF list = <<>> THEN <<>>
  ELSE LET front == Dedup(SubSeq(list, 1, Len(list) - 1))
           last == list[Len(list)]
       IN  IF \E i \in DOMAIN front : front[i] = last THEN front
           ELSE Append(front, last)

\* list[-n:]
LastN(list, n) ==
  IF Len(list) > n THEN SubSeq(list, Len(list) - n + 1, Len(list)) ELSE list

\* the selection step of generate_adaptive_quiz (quiz_management.py 110-150):
\* 30/50/20 by difficulty, filled up from the rest, then shuffled
SelectQuestions(available_questions, quiz_size) ==
  LET ByDifficulty(d) == SelectSeq(available_questions, LAMBDA q : q.difficulty = d)
      num_easy == IntOfTenths(quiz_size, 3)
      num_medium == IntOfTenths(quiz_size, 5)
      num_hard == quiz_size - num_easy - num_medium
      Part(list, n) == IF list = <<>> THEN {<<>>} ELSE Sample(list, Min(n, Len(list)))
      Fill(selected) ==
        IF Len(selected) < quiz_size
        THEN LET remaining == SelectSeq(available_questions,
                                LAMBDA q : ~ \E i \in DOMAIN selected : selected[i] = q)
                 needed == quiz_size - Len(selected)
             IN  {selected \o r : r \in Sample(remaining, Min(needed, Len(remaining)))}
        ELSE {selected}
      base == {e \o m \o h : e \in Part(ByDifficulty("easy"), num_easy),
                             m \in Part(ByDifficulty("medium"), num_medium),
                             h \in Part(ByDifficulty("hard"), num_hard)}
  IN  UNION { UNION { Shuffle(f) : f \in Fill(b) } : b \in base }

\* random.sample raises ValueError on a negative sample size
SelectRaises(available_questions, quiz_size) ==
  LET ByDifficulty(d) == SelectSeq(available_questions, LAMBDA q : q.difficulty = d)
      num_easy == IntOfTenths(quiz_size, 3)
      num_medium == IntOfTenths(quiz_size, 5)
      num_hard == quiz_size - num_easy - num_medium
  IN  \/ ByDifficulty("easy") # <<>> /\ num_easy < 0
      \/ ByDifficulty("medium") # <<>> /\ num_medium < 0
      \/ ByDifficulty("hard") # <<>> /\ num_hard < 0

\* tools.quiz_management.generate_adaptive_quiz; uuid4 is the next unused id
generate_adaptive_quiz(S, user_id, config) ==
  LET user == get_user(S.users, user_id)
      quiz_size == IF HasKey(config, "size") THEN config.size ELSE 20
      test_type == IF HasKey(config, "test_type") THEN config.test_type
                   ELSE user[1].test_type
      has_section == HasKey(config, "section")
      focus_topics == IF HasKey(config, "topics") THEN config.topics ELSE <<>>
      responses == get_quiz_responses(S.quiz_responses, user_id)
      recent_responses == LastN(responses, 50)
      QuestionOf(r) == SelectSeq(S.questions, LAMBDA q : q.question_id = r.question_id)
      answered == SelectSeq(recent_responses, LAMBDA r : QuestionOf(r) # <<>>)
      TopicOf(r) == QuestionOf(r)[1].topic
      topics == Dedup([i \in DOMAIN answered |-> TopicOf(answered[i])])
      Total(t) == Cardinality({i \in DOMAIN answered : TopicOf(answered[i]) = t})
      Correct(t) == Cardinality({i \in DOMAIN answered :
                                   TopicOf(answered[i]) = t /\ answered[i].is_correct})
      weak_topics == SelectSeq(topics,
                       LAMBDA t : Total(t) >= 3 /\ 10 * Correct(t) < 7 * Total(t))
      filters == IF has_section
                 THEN [test_type |-> test_type, section |-> config.section]
                 ELSE [test_type |-> test_type]
      first_try == get_questions(S.questions, filters, 1000)
      filters_without_test_type ==
        IF has_section THEN [section |-> config.section] ELSE <<>>
      all_questions == IF first_try = <<>>
                       THEN get_questions(S.questions, filters_without_test_type, 1000)
                       ELSE first_try
      target_topics == IF focus_topics # <<>> THEN focus_topics ELSE weak_topics
      last20 == LastN(recent_responses, 20)
      recent_question_ids == {last20[i].question_id : i \in DOMAIN last20}
      unseen == SelectSeq(all_questions,
                  LAMBDA q : q.question_id \notin recent_question_ids)
      available_questions ==
        IF Len(unseen) < quiz_size /\ Len(all_questions) >= quiz_size
        THEN all_questions ELSE unseen
      prioritized == SelectSeq(available_questions,
                       LAMBDA q : \E i \in DOMAIN target_topics : target_topics[i] = q.topic)
      pool == IF target_topics # <<>> /\ prioritized # <<>>
              THEN prioritized ELSE available_questions
      quiz_id == Len(S.quizzes) + 1
      Saved(selected_questions) ==
        [S EXCEPT !.quizzes = Append(@, [quiz_id |-> quiz_id, user_id |-> user_id,
                                         questions |-> selected_questions])]
      Payload(selected_questions) ==
        [success |-> TRUE, quiz_id |-> quiz_id, user_id |-> user_id,
         total_questions |-> Len(selected_questions),
         section |-> IF has_section THEN config.section ELSE "mixed",
         focus_areas |-> IF target_topics # <<>> THEN SubSeq(target_topics, 1, Min(3, Len(target_topics)))
                         ELSE <<"general">>,
         questions |-> [i \in DOMAIN selected_questions |-> selected_questions[i].question_id]]
  IN  IF user = <<>>
      THEN {Returned([error |-> "User not found", user_id |-> user_id,
                      message |-> "User profile not found. Please check the user ID."], S)}
      ELSE IF available_questions = <<>>
      THEN {Returned([error |-> "No questions available matching criteria"], S)}
      ELSE IF SelectRaises(pool, quiz_size)
      THEN {Raised("ValueError", S)}
      ELSE {Returned(Payload(sel), Saved(sel)) : sel \in SelectQuestions(pool, quiz_size)}
\* round(x, 2) of x = correct / total * 100, in hundredths; no x that
\* arises from a total below 32 lies halfway between two hundredths
RoundedPercent(correct, total) == (2 * correct * 10000 + total) \div (2 * total)

\* submit_quiz_response dividing by the number of responses it recognised
submit_quiz_response_known_only(S, user_id, quiz_id, responses) ==
  LET QuestionOf(r) == SelectSeq(S.questions, LAMBDA q : q.question_id = r.question_id)
      known == SelectSeq(responses, LAMBDA r : QuestionOf(r) # <<>>)
      IsCorrect(r) == r.answer = QuestionOf(r)[1].correct_answer
      total_correct == Cardinality({i \in DOMAIN known : IsCorrect(known[i])})
  IN  {Returned([quiz_id |-> quiz_id, total_questions |-> Len(known),
                 correct_answers |-> total_correct,
                 accuracy |-> IF known # <<>>
                              THEN RoundedPercent(total_correct, Len(known)) ELSE 0,
                 results |-> <<>>], S)}

\* a submission whose records are stored newest first
submit_quiz_response_newest_first(S, user_id, quiz_id, responses) ==
  LET QuestionOf(r) == SelectSeq(S.questions, LAMBDA q : q.question_id = r.question_id)
      known == SelectSeq(responses, LAMBDA r : QuestionOf(r) # <<>>)
      IsCorrect(r) == r.answer = QuestionOf(r)[1].correct_answer
      total_correct == Cardinality({i \in DOMAIN known : IsCorrect(known[i])})
      last == Len(known) + 1
      saved == [i \in DOMAIN known |->
                  [quiz_id |-> quiz_id, question_id |-> known[last - i].question_id,
                   user_answer |-> known[last - i].answer,
                   is_correct |-> IsCorrect(known[last - i]),
                   topic |-> QuestionOf(known[last - i])[1].topic,
                   difficulty |-> QuestionOf(known[last - i])[1].difficulty]]
      results == [i \in DOMAIN known |->
                    [question_id |-> known[i].question_id,
                     user_answer |-> known[i].answer,
                     correct_answer |-> QuestionOf(known[i])[1].correct_answer,
                     is_correct |-> IsCorrect(known[i])]]
      accuracy == IF responses # <<>>
                  THEN RoundedPercent(total_correct, Len(responses)) ELSE 0
      performance_level ==
        IF accuracy >= 8500 THEN "excellent"
        ELSE IF accuracy >= 7000 THEN "good"
        ELSE IF accuracy >= 6000 THEN "fair"
        ELSE "needs_improvement"
      stored == [u \in (DOMAIN S.quiz_responses) \cup {user_id} |->
                   IF u = user_id
                   THEN get_quiz_responses(S.quiz_responses, user_id) \o saved
                   ELSE S.quiz_responses[u]]
  IN  {Returned([quiz_id |-> quiz_id, total_questions |-> Len(responses),
                 correct_answers |-> total_correct, accuracy |-> accuracy,
                 performance_level |-> performance_level, results |-> results],
                IF saved = <<>> THEN S ELSE [S EXCEPT !.quiz_responses = stored])}

\* tools.quiz_management.submit_quiz_response with
\* MemoryStore.add_quiz_response; accuracy is in hundredths of a percent, and
\* the time fields are left out
submit_quiz_response(S, user_id, quiz_id, responses) ==
  LET QuestionOf(r) == SelectSeq(S.questions, LAMBDA q : q.question_id = r.question_id)
      known == SelectSeq(responses, LAMBDA r : QuestionOf(r) # <<>>)
      IsCorrect(r) == r.answer = QuestionOf(r)[1].correct_answer
      total_correct == Cardinality({i \in DOMAIN known : IsCorrect(known[i])})
      saved == [i \in DOMAIN known |->
                  [quiz_id |-> quiz_id, question_id |-> known[i].question_id,
                   user_answer |-> known[i].answer, is_correct |-> IsCorrect(known[i]),
                   topic |-> QuestionOf(known[i])[1].topic,
                   difficulty |-> QuestionOf(known[i])[1].difficulty]]
      results == [i \in DOMAIN known |->
                    [question_id |-> known[i].question_id,
                     user_answer |-> known[i].answer,
                     correct_answer |-> QuestionOf(known[i])[1].correct_answer,
                     is_correct |-> IsCorrect(known[i])]]
      accuracy == IF responses # <<>>
                  THEN RoundedPercent(total_correct, Len(responses)) ELSE 0
      performance_level ==
        IF accuracy >= 8500 THEN "excellent"
        ELSE IF accuracy >= 7000 THEN "good"
        ELSE IF accuracy >= 6000 THEN "fair"
        ELSE "needs_improvement"
      stored == [u \in (DOMAIN S.quiz_responses) \cup {user_id} |->
                   IF u = user_id
                   THEN get_quiz_responses(S.quiz_responses, user_id) \o saved
                   ELSE S.quiz_responses[u]]
  IN  {Returned([quiz_id |-> quiz_id, total_questions |-> Len(responses),
                 correct_answers |-> total_correct, accuracy |-> accuracy,
                 performance_level |-> performance_level, results |-> results],
                IF saved = <<>> THEN S ELSE [S EXCEPT !.quiz_responses = stored])}
\* ---------------------------------------------------------------- dispatch
\* _create_tool_map: the names the dispatcher can execute
tool_map ==
  {"get_user_profile", "update_user_profile", "get_learning_history",
   "get_latest_test_results", "analyze_performance_by_topic",
   "identify_error_patterns", "compare_progress", "generate_bar_chart_data",
   "search_questions", "generate_adaptive_quiz", "submit_quiz_response",
   "generate_study_recommendations", "suggest_practice_topics",
   "get_progress_summary", "track_study_streak", "get_question_explanation",
   "explain_topic_concept", "generate_encouragement", "celebrate_achievement"}

\* _define_tools: the property names of each tool of the schema sent to the model
tools ==
  [get_user_profile |-> {"user_id"},
   get_learning_history |-> {"user_id", "days"},
   get_latest_test_results |-> {"user_id", "test_id"},
   analyze_performance_by_topic |-> {"user_id", "section", "timeframe"},
   identify_error_patterns |-> {"user_id"},
   compare_progress |-> {"user_id", "comparison_type"},
   generate_adaptive_quiz |-> {"user_id", "config"},
   generate_study_recommendations |-> {"user_id"},
   get_progress_summary |-> {"user_id"},
   track_study_streak |-> {"user_id"},
   get_question_explanation |-> {"question_id", "detailed"},
   generate_encouragement |-> {"user_id", "context"},
   generate_bar_chart_data |-> {"user_id", "test_id"}]

\* the parameters of the tool functions (the def lines of tools/*.py)
Signature ==
  [get_user_profile |-> [required |-> {"user_id"}, optional |-> {}],
   update_user_profile |-> [required |-> {"user_id", "updates"}, optional |-> {}],
   get_learning_history |-> [required |-> {"user_id"}, optional |-> {"days"}],
   get_latest_test_results |-> [required |-> {"user_id"}, optional |-> {"test_id"}],
   analyze_performance_by_topic |-> [required |-> {"user_id", "section"}, optional |-> {"timeframe"}],
   identify_error_patterns |-> [required |-> {"user_id"}, optional |-> {"question_ids"}],
   compare_progress |-> [required |-> {"user_id"}, optional |-> {"comparison_type"}],
   generate_bar_chart_data |-> [required |-> {"user_id"}, optional |-> {"test_id"}],
   search_questions |-> [required |-> {"filters"}, optional |-> {"limit"}],
   generate_adaptive_quiz |-> [required |-> {"user_id", "config"}, optional |-> {}],
   submit_quiz_response |-> [required |-> {"user_id", "quiz_id", "responses"}, optional |-> {}],
   generate_study_recommendations |-> [required |-> {"user_id"}, optional |-> {}],
   suggest_practice_topics |-> [required |-> {"user_id", "section"}, optional |-> {}],
   get_progress_summary |-> [required |-> {"user_id"}, optional |-> {}],
   track_study_streak |-> [required |-> {"user_id"}, optional |-> {}],
   get_question_explanation |-> [required |-> {"question_id"}, optional |-> {"detailed"}],
   explain_topic_concept |-> [required |-> {"topic"}, optional |-> {"subtopic"}],
   generate_encouragement |-> [required |-> {"user_id"}, optional |-> {"context"}],
   celebrate_achievement |-> [required |-> {"user_id", "achievement_type"}, optional |-> {}]]

\* the function takes a user_id parameter
AcceptsUserId(name) ==
  name \in tool_map /\ "user_id" \in Signature[name].required \cup Signature[name].optional

\* TestPrepAgent._get_function_params
_get_function_params(function_name) ==
  IF function_name \in DOMAIN tools THEN tools[function_name] ELSE {}

\* json.loads(tool_call.function.arguments) with the JSONDecodeError fallback:
\* a dict, or a value that is not a dict (list, string, number, null)
ParseArguments(raw) ==
  CASE raw.fmt = "invalid" -> [isDict |-> TRUE, d |-> <<>>]
    [] raw.fmt = "nonobject" -> [isDict |-> FALSE, d |-> <<>>]
    [] OTHER -> [isDict |-> TRUE, d |-> raw.d]

\* llm_client.py 623-636: what the injection does to the parsed arguments;
\* on a value that is not a dict the item assignment (or the containment
\* test, or .get) raises
InjectUserId(function_name, arguments, user_id) ==
  IF "user_id" \in _get_function_params(function_name)
  THEN IF ~ arguments.isDict
       THEN [raised |-> TRUE, arguments |-> arguments]
       ELSE IF "user_id" \notin DOMAIN arguments.d
       THEN [raised |-> FALSE,
             arguments |-> [arguments EXCEPT !.d = DictSet(@, "user_id", user_id)]]
       ELSE IF arguments.d["user_id"] # user_id
       THEN [raised |-> FALSE,
             arguments |-> [arguments EXCEPT !.d = DictSet(@, "user_id", user_id)]]
       ELSE [raised |-> FALSE, arguments |-> arguments]
  ELSE [raised |-> FALSE, arguments |-> arguments]

\* func(**arguments) binds: a mapping with every required parameter and no
\* unexpected one
Binds(function_name, arguments) ==
  /\ arguments.isDict
  /\ Signature[function_name].required \subseteq DOMAIN arguments.d
  /\ DOMAIN arguments.d \subseteq
       Signature[function_name].required \cup Signature[function_name].optional

\* the bodies of the tool functions the model requests here
CallFunction(function_name, d, S) ==
  CASE function_name = "get_user_profile" -> get_user_profile(S, d["user_id"])
    [] function_name = "update_user_profile" ->
         update_user_profile(S, d["user_id"], d["updates"])
    [] function_name = "get_latest_test_results" ->
         get_latest_test_results(S, d["user_id"])
    [] function_name = "generate_bar_chart_data" ->
         generate_bar_chart_data(S, d["user_id"])
    [] function_name = "generate_adaptive_quiz" ->
         generate_adaptive_quiz(S, d["user_id"], d["config"])
    [] function_name = "get_question_explanation" ->
         get_question_explanation(S, d["question_id"])
    [] function_name = "submit_quiz_response" ->
         submit_quiz_response(S, d["user_id"], d["quiz_id"], d["responses"])

\* _execute_tool without its conversion of failures into {error: ...}
_execute_tool_no_error_payload(function_name, arguments, S) ==
  IF function_name \notin tool_map
  THEN {Returned([success |-> FALSE], S)}
  ELSE IF ~ Binds(function_name, arguments)
  THEN {Returned([success |-> FALSE], S)}
  ELSE CallFunction(function_name, arguments.d, S)

\* TestPrepAgent._execute_tool: every outcome is a payload; an unknown name
\* and a raising function both yield {error: ...}
_execute_tool(function_name, arguments, S) ==
  IF function_name \notin tool_map
  THEN {Returned([error |-> <<"Unknown function:", function_name>>], S)}
  ELSE IF ~ Binds(function_name, arguments)
  THEN {Raised("TypeError", S)}
  ELSE CallFunction(function_name, arguments.d, S)

\* json.dumps(result, indent=2) and json.loads of it
JsonDumps(result) == [json |-> result]
JsonLoads(content) == content.json
\* ---------------------------------------------------------- post-processor
ToolEntries(msgs, name) ==
  SelectSeq(msgs, LAMBDA m : HasKey(m, "role") /\ m.role = "tool"
                             /\ HasKey(m, "name") /\ m.name = name)

\* result_data.get("success") and result_data.get("total_score")
IsTestSuccess(result_data) ==
  /\ HasKey(result_data, "success") /\ result_data.success = TRUE
  /\ HasKey(result_data, "total_score") /\ result_data.total_score # 0

\* result_data.get("success") and result_data.get("quiz_id")
IsQuizSuccess(result_data) ==
  /\ HasKey(result_data, "success") /\ result_data.success = TRUE
  /\ HasKey(result_data, "quiz_id")

\* the payloads of the named tool's entries, in conversation order
Payloads(msgs, name) ==
  [i \in DOMAIN ToolEntries(msgs, name) |-> JsonLoads(ToolEntries(msgs, name)[i].content)]

\* str.title() of the section names
Title(name) ==
  CASE name = "reading" -> "Reading" [] name = "writing" -> "Writing"
    [] name = "reasoning" -> "Reasoning" [] name = "algebra" -> "Algebra"
    [] name = "geometry" -> "Geometry" [] OTHER -> name

\* llm_client.py 749-762
QuizTemplate(quiz_data) ==
  <<"I've created a personalized quiz for you with",
    ToString(quiz_data.total_questions), "questions!">>
  \o (IF quiz_data.section # "mixed"
      THEN <<"It focuses on", quiz_data.section>> ELSE <<>>)
  \o (IF quiz_data.focus_areas # <<>> /\ quiz_data.focus_areas # <<"general">>
      THEN <<"The quiz covers:">> \o quiz_data.focus_areas ELSE <<>>)
  \o <<"Ready to start when you are!">>

RECURSIVE Breakdown(_)
Breakdown(sections) ==
  IF sections = <<>> THEN <<>>
  ELSE <<Title(sections[1].name), ToString(sections[1].score), "points",
         ToString(sections[1].percentile), "th percentile">>
       \o Breakdown(Tail(sections))

\* llm_client.py 765-784
TestTemplate(test_data) ==
  <<"I found your latest test results! You scored",
    ToString(test_data.total_score), "total.">>
  \o (IF test_data.sections # <<>>
      THEN <<"Here's your breakdown:">> \o Breakdown(test_data.sections)
           \o <<"Your strongest areas are Reading and Writing. Let's focus on improving your Math sections (Algebra and Geometry) to boost your overall score!">>
      ELSE <<>>)

\* the post-processor returning response_lower instead of response
_validate_response_lowercased(response, msgs) ==
  IF response.isNone
  THEN [raised |-> TRUE, text |-> <<>>]
  ELSE [raised |-> FALSE, text |-> Lower(response.words)]

\* the post-processor with the test-result override tried before the quiz one
_validate_response_test_first(response, msgs) ==
  IF response.isNone
  THEN [raised |-> TRUE, text |-> <<>>]
  ELSE LET tests == SelectSeq(Payloads(msgs, "get_latest_test_results"), IsTestSuccess)
           quizs == SelectSeq(Payloads(msgs, "generate_adaptive_quiz"), IsQuizSuccess)
       IN  IF ~ ClaimedError(response.words)
           THEN [raised |-> FALSE, text |-> response.words]
           ELSE IF tests # <<>>
           THEN [raised |-> FALSE, text |-> TestTemplate(tests[Len(tests)])]
           ELSE IF quizs # <<>>
           THEN [raised |-> FALSE, text |-> QuizTemplate(quizs[Len(quizs)])]
           ELSE [raised |-> FALSE, text |-> response.words]

\* TestPrepAgent._validate_response_against_tools; response.lower() raises
\* AttributeError when the response content is None
_validate_response_against_tools(response, msgs) ==
  IF response.isNone
  THEN [raised |-> TRUE, text |-> <<>>]
  ELSE LET tests == SelectSeq(Payloads(msgs, "get_latest_test_results"), IsTestSuccess)
           quizs == SelectSeq(Payloads(msgs, "generate_adaptive_quiz"), IsQuizSuccess)
       IN  IF ~ ClaimedError(response.words)
           THEN [raised |-> FALSE, text |-> response.words]
           ELSE IF quizs # <<>>
           THEN [raised |-> FALSE, text |-> QuizTemplate(quizs[Len(quizs)])]
           ELSE IF tests # <<>>
           THEN [raised |-> FALSE, text |-> TestTemplate(tests[Len(tests)])]
           ELSE [raised |-> FALSE, text |-> response.words]

\* -------------------------------------------------------- process_message
\* the exception classes a model invocation can raise, with the bases the
\* except clauses of process_message test
LLMErrors ==
  { [cls |-> "AuthenticationError", has_status |-> TRUE, status_code |-> "401"],
    [cls |-> "RateLimitError", has_status |-> TRUE, status_code |-> "429"],
    [cls |-> "APIConnectionError", has_status |-> FALSE, status_code |-> ""],
    [cls |-> "OpenAIError", has_status |-> FALSE, status_code |-> ""],
    [cls |-> "RuntimeError", has_status |-> FALSE, status_code |-> ""] }

Bases(cls) ==
  CASE cls = "AuthenticationError" -> {"AuthenticationError", "APIError", "OpenAIError", "Exception"}
    [] cls = "RateLimitError" -> {"RateLimitError", "APIError", "OpenAIError", "Exception"}
    [] cls = "APIConnectionError" -> {"APIConnectionError", "APIError", "OpenAIError", "Exception"}
    [] cls = "OpenAIError" -> {"OpenAIError", "Exception"}
    [] OTHER -> {cls, "Exception"}

\* exceptions raised by the loop's own code
TypeError == [cls |-> "TypeError", has_status |-> FALSE, status_code |-> ""]
AttributeError == [cls |-> "AttributeError", has_status |-> FALSE, status_code |-> ""]

\* llm_client.py 494-498: the normal return
NormalResult(text, made) ==
  [keys |-> {"message", "tool_calls_made", "tools_used"},
   message |-> text,
   tool_calls_made |-> Len(made),
   tools_used |-> [i \in DOMAIN made |-> made[i].name],
   error_code |-> "",
   handler |-> "none"]

\* llm_client.py 500-547: the except clauses, first match in source order
ErrorResult(e) ==
  IF "AuthenticationError" \in Bases(e.cls)
  THEN [keys |-> {"message", "error", "error_code", "tool_calls_made", "tools_used"},
        message |-> <<"I apologize, but there's an authentication", "issue with",
                      "the API. Please check your API key configuration in the .env file.">>,
        tool_calls_made |-> 0, tools_used |-> <<>>,
        error_code |-> IF e.has_status THEN e.status_code ELSE "401",
        handler |-> "AuthenticationError"]
  ELSE IF "APIError" \in Bases(e.cls)
  THEN [keys |-> {"message", "error", "error_code", "tool_calls_made", "tools_used"},
        message |-> <<"I encountered an API error (code",
                      IF e.has_status THEN e.status_code ELSE "N/A",
                      "). Please try again later.">>,
        tool_calls_made |-> 0, tools_used |-> <<>>,
        error_code |-> IF e.has_status THEN e.status_code ELSE "N/A",
        handler |-> "APIError"]
  ELSE IF "OpenAIError" \in Bases(e.cls)
  THEN [keys |-> {"message", "error", "tool_calls_made", "tools_used"},
        message |-> <<"I encountered an error with the AI service. Please try again.">>,
        tool_calls_made |-> 0, tools_used |-> <<>>,
        error_code |-> "",
        handler |-> "OpenAIError"]
  ELSE [keys |-> {"message", "error", "tool_calls_made", "tools_used"},
        message |-> <<"I apologize, but I encountered an error. Let's try that again.">>,
        tool_calls_made |-> 0, tools_used |-> <<>>,
        error_code |-> "",
        handler |-> "Exception"]
\* ------------------------------------------------------------ orchestrator
\* Optional[List]: the tool_calls field of a stored conversation message
NoneList == [isNone |-> TRUE, list |-> <<>>]
SomeList(l) == [isNone |-> FALSE, list |-> l]

\* the history read from its oldest end
get_conversation_history_oldest(ch, session_id, limit) ==
  IF session_id \in DOMAIN ch
  THEN SubSeq(ch[session_id], 1, Min(limit, Len(ch[session_id])))
  ELSE <<>>

\* MemoryStore.get_conversation_history
get_conversation_history(ch, session_id, limit) ==
  IF session_id \in DOMAIN ch THEN LastN(ch[session_id], limit) ELSE <<>>

\* ConversationOrchestrator._get_formatted_history
_get_formatted_history(ch, session_id) ==
  LET history == get_conversation_history(ch, session_id, max_context_turns)
      kept == SelectSeq(history, LAMBDA msg : msg.message_type \in {"user", "assistant"})
  IN  [i \in DOMAIN kept |-> [role |-> kept[i].message_type,
                               content |-> PyStr(kept[i].content)]]

\* a save that keeps only the newest entry of the session
_save_message_latest_only(ch, session_id, role, content, tool_calls) ==
  LET entry == [message_type |-> role, content |-> content, tool_calls |-> tool_calls]
  IN  [s \in (DOMAIN ch) \cup {session_id} |->
         IF s = session_id THEN <<entry>> ELSE ch[s]]

\* ConversationOrchestrator._save_message with MemoryStore.add_conversation_message
_save_message(ch, session_id, role, content, tool_calls) ==
  LET entry == [message_type |-> role, content |-> content, tool_calls |-> tool_calls]
  IN  [s \in (DOMAIN ch) \cup {session_id} |->
         IF s = session_id
         THEN (IF s \in DOMAIN ch THEN Append(ch[s], entry) ELSE <<entry>>)
         ELSE ch[s]]

analysis_keywords ==
  {"analyze", "analysis", "chart", "visual", "graph", "breakdown",
   "detailed analysis", "show me"}

\* ConversationOrchestrator._force_tool_usage_message
_force_tool_usage_message(user_id, message) ==
  message \o <<"[SYSTEM: User explicitly requested analysis. You MUST call these tools:",
               user_id, "DO NOT respond without calling these tools.]">>

\* orchestrator.py 52-62
EnrichedMessage(user_id, message) ==
  IF \E keyword \in analysis_keywords : Contains(Lower(message), keyword)
  THEN _force_tool_usage_message(user_id, message)
  ELSE message

\* llm_client.py 480-487: the conversation sent to the model
BuildMessages(message, history) ==
  <<[role |-> "system", content |-> PyStr(<<"system prompt">>)]>>
  \o LastN(history, limited_history_len)
  \o <<[role |-> "user", content |-> PyStr(message)]>>

\* ConversationOrchestrator._create_welcome_message, the branch taken when
\* the latest test result exists, else the greeting
_create_welcome_message(profile) ==
  LET latest == get_test_results(profile.user_id)
  IN  IF latest # <<>> /\ latest[Len(latest)].total_score # 0
      THEN <<"Hey", profile.name, "Well done on that last exam!", "You scored a",
             ToString(latest[Len(latest)].total_score),
             "which is a marked improvement but I think there's still room to grow.",
             "You got this!">>
      ELSE <<"Hey", profile.name, "Ready to ace your", profile.test_type>>

\* ---------------------------------------------------------- quick replies
\* a button of the mobile UI; the emoji that starts each text is left out
B(text, action) == [text |-> text, action |-> action]

\* orchestrator.py 397-402, 406-411, 415-420, 424-429, 433-438, 442-447,
\* 451-456: the button sets of the tool rules
TestResultsButtons ==
  << B("Analyze my last exam", "analyze_exam"),
     B("How can I improve my scores?", "improve_scores"),
     B("Compare with my target", "compare_progress"),
     B("Generate practice questions", "create_quiz") >>
TopicAnalysisButtons ==
  << B("Create practice on weak areas", "create_quiz"),
     B("Show detailed breakdown", "detailed_analysis"),
     B("What should I study next?", "get_recommendations"),
     B("How am I doing overall?", "check_progress") >>
QuizButtons ==
  << B("Start this quiz", "start_quiz"),
     B("Customize quiz settings", "customize_quiz"),
     B("Review concepts first", "review_concepts"),
     B("Skip for now", "cancel") >>
ChartButtons ==
  << B("Create practice quiz", "create_quiz"),
     B("Analyze more details", "analyze_exam"),
     B("Show study plan", "get_recommendations"),
     B("Track my progress", "check_progress") >>
ProgressButtons ==
  << B("Create practice questions", "create_quiz"),
     B("Analyze my last test", "analyze_exam"),
     B("Get recommendations", "get_recommendations"),
     B("Check my streak", "check_progress") >>
ErrorPatternButtons ==
  << B("Practice my weak topics", "create_quiz"),
     B("Show detailed analysis", "detailed_analysis"),
     B("How to fix these mistakes?", "get_recommendations"),
     B("Review explanations", "review_concepts") >>
ExplanationButtons ==
  << B("Try similar questions", "create_quiz"),
     B("Analyze my test", "analyze_exam"),
     B("Explain another topic", "explain_concepts"),
     B("Check my progress", "check_progress") >>

\* ConversationScenarios.get_quiz_complete_scenario: accuracy is
\* correct / total * 100, compared here as correct * 100 against 80 * total
QuizCompleteButtons(correct, total) ==
  IF total > 0 /\ correct * 100 >= 80 * total
  THEN << B("Show detailed breakdown", "quiz_breakdown"),
          B("Try harder questions", "harder_quiz"),
          B("Check my progress", "check_progress"),
          B("Practice more", "practice") >>
  ELSE IF total > 0 /\ correct * 100 >= 60 * total
  THEN << B("Review wrong answers", "review_answers"),
          B("Practice weak topics", "weak_topics"),
          B("Get study tips", "study_tips"),
          B("Try similar quiz", "similar_quiz") >>
  ELSE << B("Review all answers", "review_all"),
          B("Explain concepts", "explain_concepts"),
          B("Easier practice", "easier_quiz"),
          B("Get encouragement", "encouragement") >>

\* orchestrator.py 482-487, 492-497: the other sets of the history rules
PostQuizButtons ==
  << B("Review my results", "analyze_exam"),
     B("Try another quiz", "create_quiz"),
     B("Get study tips", "get_recommendations"),
     B("Check overall progress", "check_progress") >>
ImprovementButtons ==
  << B("Create practice on weak areas", "create_quiz"),
     B("Show detailed breakdown", "analyze_exam"),
     B("Get personalized recommendations", "get_recommendations"),
     B("Review explanations", "review_concepts") >>

\* orchestrator.py 506-511, 521-545, 566-571, 578-583: the sets of the
\* response-text rules; ConversationScenarios.get_improvement_scenario
DataIssueButtons ==
  << B("I did take a test!", "confirm_test_taken"),
     B("Let's do a practice quiz", "create_quiz"),
     B("Check my profile", "check_profile"),
     B("I need help", "support") >>
ConfirmQuizButtons ==
  << B("Yes! Let's do it", "start_quiz"),
     B("Let me customize it", "customize_quiz"),
     B("Review first", "review_concepts"),
     B("Maybe later", "cancel") >>
ConfirmTestButtons ==
  << B("Yep, I took one!", "confirm_test_taken"),
     B("Not yet", "no_test_yet"),
     B("Let's practice", "create_quiz") >>
ConfirmScheduleButtons ==
  << B("Set a new date", "schedule_test"),
     B("Just study for now", "focus_study"),
     B("Tell me more", "more_info") >>
ConfirmButtons ==
  << B("Yes, sounds good!", "confirm_yes"),
     B("Nope, I'm good", "confirm_no"),
     B("Tell me more", "more_info") >>
ImprovementScenarioButtons ==
  << B("Give me practice questions", "practice"),
     B("Explain the concepts", "explain_concepts"),
     B("Create a study plan", "create_plan"),
     B("Show me my mistakes", "show_mistakes") >>
AnalysisButtons ==
  << B("Help me practice", "create_quiz"),
     B("Show me more details", "analyze_exam"),
     B("What should I study?", "get_recommendations"),
     B("How am I doing now?", "check_progress") >>
StreakButtons ==
  << B("Overall progress", "check_progress"),
     B("Create practice quiz", "create_quiz"),
     B("Analyze my test", "analyze_exam"),
     B("Get recommendations", "get_recommendations") >>

\* orchestrator.py 588-593, and the same four buttons at 354-359
DefaultButtons ==
  << B("Analyze my last exam", "analyze_exam"),
     B("How can I improve my scores?", "improve_scores"),
     B("How am I doing now?", "check_progress"),
     B("Come up with similar questions", "create_quiz") >>

\* orchestrator.py 871-875: the buttons _create_structured_response adds
StructuredQuizButtons ==
  << B("Start Quiz", "start_quiz"),
     B("Customize Quiz", "customize_quiz"),
     B("Cancel", "cancel") >>

\* the keywords of _add_contextual_quick_replies that occur inside a
\* lower-case word of the texts; any other word holds only itself
PhrasesIn(w) ==
  CASE w = "great progress so far" -> {"progress"}
    [] w = "your results" -> {"result"}
    [] w = "my last exam" -> {"exam"}
    [] w = "i've created a personalized quiz for you with" -> {"quiz"}
    [] w = "questions!" -> {"question"}
    [] w = "the quiz covers:" -> {"quiz"}
    [] w = "ready to start when you are!" -> {"ready to"}
    [] w = "i found your latest test results! you scored" ->
         {"test", "result", "you scored", "score"}
    [] w = "here's your breakdown:" -> {"breakdown"}
    [] w = "your strongest areas are reading and writing. let's focus on improving your math sections (algebra and geometry) to boost your overall score!" ->
         {"focus on", "reading", "writing", "math", "algebra", "geometry", "score"}
    [] w = "i encountered an api error (code" -> {"error"}
    [] w = "i encountered an error with the ai service. please try again." -> {"error"}
    [] w = "i apologize, but i encountered an error. let's try that again." -> {"error"}
    [] w = "well done on that last exam!" -> {"done", "exam"}
    [] w = "you scored a" -> {"you scored", "score"}
    [] w = "which is a marked improvement but i think there's still room to grow." ->
         {"improve", "improvement"}
    [] w = "ready to ace your" -> {"ready to"}
    [] w = "i want to improve" -> {"improve"}
    [] w = "give me a quiz" -> {"quiz"}
    [] w = "no test results" -> {"no test results", "test", "result"}
    [] w = "improvement" -> {"improvement", "improve"}
    [] w = "weak areas" -> {"weak areas", "weak"}
    [] w = "you scored" -> {"you scored", "score"}
    [] OTHER -> {w}

\* phrase in text, for a lower-case text
Mentions(s, phrase) == \E i \in DOMAIN s : phrase \in PhrasesIn(s[i])
MentionsAny(s, phrases) == \E phrase \in phrases : Mentions(s, phrase)

\* re.search(r'(\d+)%|(\d+)/(\d+)', word): groups 2 and 3 of the match, 0
\* for a group that did not take part
AccuracyMatch(w) ==
  CASE w = "80%" -> [found |-> TRUE, group2 |-> 0, has3 |-> FALSE, group3 |-> 0]
    [] w = "3/4" -> [found |-> TRUE, group2 |-> 3, has3 |-> TRUE, group3 |-> 4]
    [] w = "9/10" -> [found |-> TRUE, group2 |-> 9, has3 |-> TRUE, group3 |-> 10]
    [] OTHER -> [found |-> FALSE, group2 |-> 0, has3 |-> FALSE, group3 |-> 0]

\* orchestrator.py 834-844, 867-875: the quick_replies of the ui_elements
\* that _create_structured_response returns
_create_structured_response(tools_used) ==
  IF tools_used = <<>> THEN <<>>
  ELSE IF \E i \in DOMAIN tools_used : tools_used[i] = "generate_adaptive_quiz"
  THEN StructuredQuizButtons
  ELSE <<>>

\* the tool rules with the quiz rule tested before the test-results rule
ToolRuleQuizFirst(quick_replies, tools_used) ==
  LET used(name) == \E i \in DOMAIN tools_used : tools_used[i] = name
  IN  IF tools_used = <<>> THEN [matched |-> FALSE, set |-> quick_replies]
      ELSE IF used("generate_adaptive_quiz")
      THEN [matched |-> TRUE, set |-> QuizButtons]
      ELSE IF used("get_latest_test_results")
      THEN [matched |-> TRUE, set |-> TestResultsButtons]
      ELSE IF used("analyze_performance_by_topic")
      THEN [matched |-> TRUE, set |-> TopicAnalysisButtons]
      ELSE IF used("generate_bar_chart_data") \/ used("generate_study_recommendations")
      THEN [matched |-> TRUE, set |-> ChartButtons]
      ELSE IF used("get_progress_summary")
      THEN [matched |-> TRUE, set |-> ProgressButtons]
      ELSE IF used("identify_error_patterns")
      THEN [matched |-> TRUE, set |-> ErrorPatternButtons]
      ELSE IF used("get_question_explanation")
      THEN [matched |-> TRUE, set |-> ExplanationButtons]
      ELSE [matched |-> FALSE, set |-> quick_replies]

\* orchestrator.py 395-457: the tool rules, in source order
ToolRule(quick_replies, tools_used) ==
  LET used(name) == \E i \in DOMAIN tools_used : tools_used[i] = name
  IN  IF tools_used = <<>> THEN [matched |-> FALSE, set |-> quick_replies]
      ELSE IF used("get_latest_test_results")
      THEN [matched |-> TRUE, set |-> TestResultsButtons]
      ELSE IF used("analyze_performance_by_topic")
      THEN [matched |-> TRUE, set |-> TopicAnalysisButtons]
      ELSE IF used("generate_adaptive_quiz")
      THEN [matched |-> TRUE, set |-> QuizButtons]
      ELSE IF used("generate_bar_chart_data") \/ used("generate_study_recommendations")
      THEN [matched |-> TRUE, set |-> ChartButtons]
      ELSE IF used("get_progress_summary")
      THEN [matched |-> TRUE, set |-> ProgressButtons]
      ELSE IF used("identify_error_patterns")
      THEN [matched |-> TRUE, set |-> ErrorPatternButtons]
      ELSE IF used("get_question_explanation")
      THEN [matched |-> TRUE, set |-> ExplanationButtons]
      ELSE [matched |-> FALSE, set |-> quick_replies]

\* orchestrator.py 389-392, 460-498: the conversation-history rules
HistoryRule(quick_replies, response_text, history) ==
  LET recent == LastN(history, 3)
      joined[i \in 0..Len(recent)] ==
        IF i = 0 THEN <<>> ELSE joined[i - 1] \o recent[i].content.words
      conversation_context == Lower(joined[Len(recent)])
      response_lower == Lower(response_text)
      matches == {i \in DOMAIN response_text : AccuracyMatch(response_text[i]).found}
      accuracy_match ==
        AccuracyMatch(response_text[CHOOSE i \in matches : \A j \in matches : i <= j])
  IN  IF conversation_context = <<>> THEN [matched |-> FALSE, set |-> quick_replies]
      ELSE IF /\ MentionsAny(conversation_context, {"quiz", "practice", "question"})
              /\ MentionsAny(response_lower, {"complete", "finished", "done", "result",
                                              "score", "correct"})
      THEN IF matches # {}
           THEN [matched |-> TRUE,
                 set |-> QuizCompleteButtons(accuracy_match.group2,
                                             IF accuracy_match.has3
                                             THEN accuracy_match.group3 ELSE 20)]
           ELSE [matched |-> TRUE, set |-> PostQuizButtons]
      ELSE IF MentionsAny(conversation_context,
                          {"improve", "better", "weak", "struggl", "help"})
      THEN [matched |-> TRUE, set |-> ImprovementButtons]
      ELSE [matched |-> FALSE, set |-> quick_replies]

\* orchestrator.py 502-584: the response-text rules
TextRule(quick_replies, response_text, tools_used) ==
  LET response_lower == Lower(response_text)
      topic_keywords == {"algebra", "geometry", "reading", "writing", "math", "verbal",
                         "quantitative"}
      weak_topics ==
        {topic \in topic_keywords :
           /\ Mentions(response_lower, topic)
           /\ MentionsAny(response_lower, {"weak", "struggle", "difficulty"})}
  IN  IF MentionsAny(response_lower,
                     {"issue retrieving", "error", "could not", "unable to",
                      "no recent test results", "no test results", "haven't taken"})
      THEN [matched |-> TRUE, set |-> DataIssueButtons]
      ELSE IF MentionsAny(response_lower,
                          {"would you like", "do you want", "shall we", "ready to",
                           "can you confirm", "please confirm", "let me know"})
      THEN [matched |-> TRUE,
            set |-> IF MentionsAny(response_lower, {"quiz", "practice"})
                    THEN ConfirmQuizButtons
                    ELSE IF MentionsAny(response_lower, {"test", "exam"})
                    THEN ConfirmTestButtons
                    ELSE IF MentionsAny(response_lower, {"schedule", "reschedule"})
                    THEN ConfirmScheduleButtons
                    ELSE ConfirmButtons]
      ELSE IF MentionsAny(response_lower,
                          {"based on", "you scored", "your performance", "recommend",
                           "suggest", "weak areas", "strengths", "improve", "focus on",
                           "analysis", "breakdown"})
      THEN [matched |-> TRUE,
            set |-> IF weak_topics # {} THEN ImprovementScenarioButtons
                    ELSE AnalysisButtons]
      ELSE IF /\ MentionsAny(response_lower, {"streak", "progress", "improvement",
                                              "better", "days", "practice"})
              /\ tools_used = <<>>
      THEN [matched |-> TRUE, set |-> StreakButtons]
      ELSE [matched |-> FALSE, set |-> quick_replies]

\* the cascade with the response-text rules tested before the history rules
_add_contextual_quick_replies_text_first(response_text, quick_replies, tools_used, history) ==
  LET tool == ToolRule(quick_replies, tools_used)
      hist == HistoryRule(quick_replies, response_text, history)
      text == TextRule(quick_replies, response_text, tools_used)
  IN  IF tool.matched THEN tool.set
      ELSE IF text.matched THEN text.set
      ELSE IF hist.matched THEN hist.set
      ELSE IF quick_replies = <<>> THEN DefaultButtons
      ELSE quick_replies

\* ConversationOrchestrator._add_contextual_quick_replies: the quick_replies
\* it leaves in ui_elements, which held quick_replies before the call
_add_contextual_quick_replies(response_text, quick_replies, tools_used, history) ==
  LET tool == ToolRule(quick_replies, tools_used)
      hist == HistoryRule(quick_replies, response_text, history)
      text == TextRule(quick_replies, response_text, tools_used)
  IN  IF tool.matched THEN tool.set
      ELSE IF hist.matched THEN hist.set
      ELSE IF text.matched THEN text.set
      ELSE IF quick_replies = <<>> THEN DefaultButtons
      ELSE quick_replies

\* ---------------------------------------------------------------- the state
VARIABLES
  pc,               \* "idle", "llm" (in client.chat.completions.create),
                    \* "tools" (in the for loop over tool_calls), "done"
  varied_rounds,    \* responses of the turn that departed from the default
  request,          \* handle_message: user_id, message, session_id, flow
  messages,         \* _process_with_tools: the conversation
  response,         \* the last model response
  iterations,       \* the loop counter
  call_idx,         \* position of the for loop in response.tool_calls
  tool_calls_made,  \* the list process_message passes to the loop
  api_calls,        \* the outcome of each model invocation of the turn
  pm_result,        \* what process_message returned
  hm_result,        \* what handle_message returned
  http,             \* what the quiz endpoints of main.py returned last
  in_flight         \* the /chat requests received and not yet answered

vars == <<in_flight, questions, users, quiz_responses, quizzes, conversation_history, pc,
          varied_rounds, request, messages, response, iterations, call_idx,
          tool_calls_made, api_calls, pm_result, hm_result, http>>

\* store.conversation_history when the request arrives: empty, as
\* MemoryStore.__init__ leaves it, or holding what an earlier
\* handle_message("mock-user", "How do I study", "s1") left in session s1,
\* a turn in which the model called get_latest_test_results and then answered
InitialHistories ==
  { <<>>,
    [s \in {"s1"} |->
       << [message_type |-> "user", content |-> <<"How do I study">>,
           tool_calls |-> NoneList],
          [message_type |-> "assistant", content |-> <<"Great progress so far">>,
           tool_calls |-> SomeList(<<"get_latest_test_results">>)] >>] }

NoRequest == [user_id |-> "", message |-> <<>>, session_id |-> "", flow |-> "none",
              history |-> <<>>]
NoResponse == [finish_reason |-> "", content |-> PyNone, tool_calls |-> <<>>]
NoResult == [keys |-> {}, message |-> <<>>, tool_calls_made |-> 0, tools_used |-> <<>>,
             error_code |-> "", handler |-> "none"]
NoHttp == [endpoint |-> "", status |-> 0, body |-> <<>>]
NoReply == [keys |-> {}, session_id |-> "", response |-> <<>>, tools_used |-> <<>>,
            quick_replies |-> <<>>, tool_calls_made |-> 0, is_welcome |-> FALSE]

Init ==
  /\ questions = Questions
  /\ users = DefaultUsers
  /\ quiz_responses = SeedResponses
  /\ quizzes = <<>>
  /\ conversation_history \in InitialHistories
  /\ pc = "idle"
  /\ varied_rounds = 0
  /\ request = NoRequest
  /\ messages = <<>>
  /\ response = NoResponse
  /\ iterations = 0
  /\ call_idx = 0
  /\ tool_calls_made = <<>>
  /\ api_calls = <<>>
  /\ pm_result = NoResult
  /\ hm_result = NoReply
  /\ http = NoHttp
  /\ in_flight = {}
\* ------------------------------------------------------------ the requests
NoSession == "<None>"

\* a dispatch that also happens while a turn waits in the model call
CanDispatchDuringModelCall == pc \in {"idle", "llm"}

\* a dispatch that also happens between the tool calls of a round
CanDispatchDuringTools == pc \in {"idle", "tools"}

\* the event loop runs the handler of another request only when the running
\* coroutine suspends or returns: chat, handle_message, process_message and
\* _process_with_tools await only one another, and the model call
\* (llm_client.py 565, 671) is a plain blocking call, so a turn never suspends
CanDispatch == pc = "idle"

\* str(uuid.uuid4()): an id no session has yet
FreshSession == ToString(Cardinality(DOMAIN conversation_history) + 1)

BlankTurn ==
  /\ messages' = <<>>
  /\ response' = NoResponse
  /\ iterations' = 0
  /\ call_idx' = 0
  /\ tool_calls_made' = <<>>
  /\ api_calls' = <<>>
  /\ pm_result' = NoResult

\* the session start taken for every session without history
StartsSessionWithoutHistory(sid, history) == history = <<>>

\* orchestrator.py 36, 45: is_new_session and len(history) == 0
StartsSession(sid, history) == sid = NoSession /\ history = <<>>

\* handle_message without session_id for a user the store knows:
\* _handle_session_start answers with the welcome message (orchestrator.py
\* 35-46, 149-155, 181-206)
HandleMessageWelcome(user_id, message, sid) ==
  /\ CanDispatch
  /\ LET session_id == IF sid = NoSession THEN FreshSession ELSE sid
         history == _get_formatted_history(conversation_history, session_id)
         profile == CHOOSE o \in get_user_profile(StoreRec, user_id) : TRUE
         welcome_message == _create_welcome_message(profile.result)
     IN  /\ StartsSession(sid, history)
         /\ ~ HasKey(profile.result, "error")
         /\ conversation_history' =
              _save_message(conversation_history, session_id, "assistant",
                            welcome_message, NoneList)
         /\ request' = [user_id |-> user_id, message |-> message,
                        session_id |-> session_id, flow |-> "welcome",
                        history |-> history]
         /\ hm_result' = [keys |-> {"session_id", "response", "follow_ups", "tools_used",
                                    "ui_elements", "metadata"},
                          session_id |-> session_id, response |-> welcome_message,
                          tools_used |-> <<"get_user_profile", "get_progress_summary">>,
                          quick_replies |-> DefaultButtons,
                          tool_calls_made |-> 2, is_welcome |-> TRUE]
  /\ pc' = "done"
  /\ BlankTurn
  /\ UNCHANGED <<in_flight, questions, users, quiz_responses, quizzes, varied_rounds, http>>

\* handle_message up to the first model invocation: with a session_id
\* (orchestrator.py 42-69), or without one for a user the store does not
\* know (orchestrator.py 155-162)
HandleMessageStart(user_id, message, sid) ==
  /\ CanDispatch
  /\ LET session_id == IF sid = NoSession THEN FreshSession ELSE sid
         history == _get_formatted_history(conversation_history, session_id)
         to_start == StartsSession(sid, history)
         profile == CHOOSE o \in get_user_profile(StoreRec, user_id) : TRUE
     IN  /\ to_start => HasKey(profile.result, "error")
         /\ conversation_history' =
              _save_message(conversation_history, session_id, "user", message, NoneList)
         /\ request' = [user_id |-> user_id, message |-> message,
                        session_id |-> session_id,
                        flow |-> IF to_start THEN "session_start" ELSE "normal",
                        history |-> history]
         /\ messages' = IF to_start
                        THEN BuildMessages(message, <<>>)
                        ELSE BuildMessages(EnrichedMessage(user_id, message), history)
  /\ pc' = "llm"
  /\ response' = NoResponse
  /\ iterations' = 0
  /\ call_idx' = 0
  /\ tool_calls_made' = <<>>
  /\ api_calls' = <<>>
  /\ pm_result' = NoResult
  /\ hm_result' = NoReply
  /\ UNCHANGED <<in_flight, questions, users, quiz_responses, quizzes, varied_rounds, http>>

\* process_message returns pm; handle_message saves the assistant message
\* and returns its envelope (orchestrator.py 71-108, 163-179)
ReturnFromProcess(pm) ==
  /\ pm_result' = pm
  /\ conversation_history' =
       _save_message(conversation_history, request.session_id, "assistant", pm.message,
                     IF request.flow = "normal" THEN SomeList(pm.tools_used) ELSE NoneList)
  /\ hm_result' = [keys |-> {"session_id", "response", "follow_ups", "tools_used",
                             "ui_elements", "metadata"},
                   session_id |-> request.session_id, response |-> pm.message,
                   tools_used |-> pm.tools_used,
                   quick_replies |->
                     IF request.flow = "normal"
                     THEN _add_contextual_quick_replies(
                            pm.message, _create_structured_response(pm.tools_used),
                            pm.tools_used, request.history)
                     ELSE _create_structured_response(pm.tools_used),
                   tool_calls_made |-> pm.tool_calls_made, is_welcome |-> FALSE]
  /\ pc' = "done"

\* llm_client.py 684-693: the loop is left with this response
LeaveLoop(resp) ==
  LET v == _validate_response_against_tools(resp.content, messages)
  IN  IF v.raised
      THEN ReturnFromProcess(ErrorResult(AttributeError))
      ELSE ReturnFromProcess(NormalResult(v.text, tool_calls_made))
\* --------------------------------------------------------------- the model
RawObject(d) == [fmt |-> "object", d |-> d]
RawInvalid == [fmt |-> "invalid", d |-> <<>>]
RawNonObject == [fmt |-> "nonobject", d |-> <<>>]

\* the call the model requests when it chooses nothing else
DefaultCall == [name |-> "get_latest_test_results", arguments |-> RawObject(<<>>)]

\* the other (name, arguments) pairs the model may request
VariedCalls ==
  { [name |-> "get_latest_test_results", arguments |-> RawObject([user_id |-> "guest"])],
    [name |-> "get_latest_test_results", arguments |-> RawInvalid],
    [name |-> "get_latest_test_results", arguments |-> RawNonObject],
    [name |-> "generate_bar_chart_data", arguments |-> RawObject(<<>>)],
    [name |-> "generate_adaptive_quiz", arguments |-> RawObject([config |-> [size |-> 1]])],
    [name |-> "update_user_profile",
     arguments |-> RawObject([user_id |-> "mock-user",
                              updates |-> [study_hours_per_week |-> 20]])],
    [name |-> "update_user_profile",
     arguments |-> RawObject([updates |-> [study_hours_per_week |-> 20]])],
    [name |-> "update_user_profile",
     arguments |-> RawObject([user_id |-> "mock-user",
                              updates |-> [study_hours_per_week |-> 30,
                                           user_id |-> "guest",
                                           email |-> "other@example.com"]])],
    [name |-> "update_user_profile",
     arguments |-> RawObject([user_id |-> "guest",
                              updates |-> [study_hours_per_week |-> 30]])],
    [name |-> "no_such_tool", arguments |-> RawObject(<<>>)] }

\* the lists of calls of a response: any first call, followed by DefaultCall
\* up to MaxCallsPerRound calls in all
ToolCallLists ==
  { [i \in 1..n |-> IF i = 1 THEN c ELSE DefaultCall] :
      n \in 1..MaxCallsPerRound, c \in VariedCalls \cup {DefaultCall} }

\* the default response of the model when it requests tools
IsDefaultRequest(content, calls) == content.isNone /\ calls = <<DefaultCall>>

\* the responses with tool calls the model may give: any list of
\* ToolCallLists without text, or DefaultCall with a text beside it
ToolCallRequests ==
  [content : {PyNone}, calls : ToolCallLists]
    \cup [content : {PyStr(<<"I", "couldn't find", "your results">>)},
          calls : {<<DefaultCall>>}]

\* the tool_calls of a response, with ids unique in the turn
WithIds(calls) ==
  [i \in DOMAIN calls |-> [id |-> <<Len(api_calls) + 1, i>>, name |-> calls[i].name,
                           arguments |-> calls[i].arguments]]

\* ----------------------------------------------------- _process_with_tools
\* the loop condition with <= in place of <
LoopContinuesInclusive(resp, iters) ==
  resp.finish_reason = "tool_calls" /\ iters <= max_iterations

\* llm_client.py 590: the loop condition
LoopContinues(resp, iters) ==
  resp.finish_reason = "tool_calls" /\ iters < max_iterations

\* the assistant entry listing the calls in reverse order
AssistantEntryReversed(resp) ==
  [role |-> "assistant", content |-> resp.content,
   tool_calls |-> [i \in DOMAIN resp.tool_calls |->
                     resp.tool_calls[Len(resp.tool_calls) + 1 - i]]]

\* llm_client.py 596-610: the assistant entry that lists the calls
AssistantEntry(resp) ==
  [role |-> "assistant", content |-> resp.content, tool_calls |-> resp.tool_calls]

\* a model invocation (llm_client.py 565-572, 671-678) returns resp
ModelReturns(resp) ==
  /\ api_calls' = Append(api_calls, resp.finish_reason)
  /\ response' = resp
  /\ IF LoopContinues(resp, iterations)
     THEN /\ iterations' = iterations + 1
          /\ messages' = Append(messages, AssistantEntry(resp))
          /\ call_idx' = 1
          /\ pc' = "tools"
          /\ UNCHANGED <<conversation_history, pm_result, hm_result>>
     ELSE /\ LeaveLoop(resp)
          /\ UNCHANGED <<iterations, messages, call_idx>>
  /\ UNCHANGED <<in_flight, questions, users, quiz_responses, quizzes, request, tool_calls_made, http>>

\* the model answers with text and no tool call
ModelAnswers ==
  /\ pc = "llm"
  /\ \E text \in LLMTexts :
       ModelReturns([finish_reason |-> "stop", content |-> PyStr(text),
                     tool_calls |-> <<>>])
  /\ UNCHANGED varied_rounds

\* the model requests tool calls; a response other than the default one is
\* one of the turn's varied rounds
ModelRequestsTools ==
  /\ pc = "llm"
  /\ \E r \in ToolCallRequests :
       /\ IsDefaultRequest(r.content, r.calls) \/ varied_rounds < MaxVariedRounds
       /\ ModelReturns([finish_reason |-> "tool_calls", content |-> r.content,
                        tool_calls |-> WithIds(r.calls)])
       /\ varied_rounds' = varied_rounds
                             + (IF IsDefaultRequest(r.content, r.calls) THEN 0 ELSE 1)

\* a failed model invocation that is tried again instead of handled
ModelFailsAndRetries ==
  /\ pc = "llm"
  /\ api_calls' = Append(api_calls, "error")
  /\ UNCHANGED <<in_flight, questions, http, users, quiz_responses, quizzes, conversation_history, pc,
                 varied_rounds, request, messages, response, iterations, call_idx,
                 tool_calls_made, pm_result, hm_result>>

\* a failed model invocation that undoes the quizzes the turn saved
ModelFailsAndRollsBack ==
  /\ pc = "llm"
  /\ api_calls' = Append(api_calls, "error")
  /\ \E e \in LLMErrors : ReturnFromProcess(ErrorResult(e))
  /\ quizzes' = <<>>
  /\ UNCHANGED <<in_flight, questions, http, users, quiz_responses, varied_rounds, request,
                 messages, response, iterations, call_idx, tool_calls_made>>

\* the model invocation raises e: process_message's except clauses
\* (llm_client.py 500-547)
ModelFails ==
  /\ pc = "llm"
  /\ api_calls' = Append(api_calls, "error")
  /\ \E e \in LLMErrors : ReturnFromProcess(ErrorResult(e))
  /\ UNCHANGED <<in_flight, questions, http, users, quiz_responses, quizzes, varied_rounds, request, messages,
                 response, iterations, call_idx, tool_calls_made>>

\* one pass of the for loop over tool_calls (llm_client.py 613-668); after
\* the last call the model is invoked again
ExecuteToolCall ==
  /\ pc = "tools"
  /\ LET tool_call == response.tool_calls[call_idx]
         function_name == tool_call.name
         injected == InjectUserId(function_name, ParseArguments(tool_call.arguments),
                                  request.user_id)
     IN  IF injected.raised
         THEN /\ ReturnFromProcess(ErrorResult(TypeError))
              /\ UNCHANGED <<users, quiz_responses, quizzes, messages, call_idx,
                             tool_calls_made>>
         ELSE \E out \in _execute_tool(function_name, injected.arguments, StoreRec) :
                /\ users' = out.store.users
                /\ quiz_responses' = out.store.quiz_responses
                /\ quizzes' = out.store.quizzes
                /\ tool_calls_made' = Append(tool_calls_made,
                                             [name |-> function_name,
                                              arguments |-> injected.arguments])
                /\ messages' = Append(messages,
                                      [role |-> "tool", tool_call_id |-> tool_call.id,
                                       name |-> function_name,
                                       content |-> JsonDumps(out.result)])
                /\ IF call_idx < Len(response.tool_calls)
                   THEN call_idx' = call_idx + 1 /\ pc' = "tools"
                   ELSE call_idx' = 0 /\ pc' = "llm"
                /\ UNCHANGED <<conversation_history, pm_result, hm_result>>
  /\ UNCHANGED <<in_flight, questions, http, varied_rounds, request, response, iterations, api_calls>>

\* the requests that arrive: (user_id, message, session_id)
Requests ==
  { [user_id |-> "mock-user", message |-> <<"How do I study">>, session_id |-> NoSession],
    [user_id |-> "guest", message |-> <<"How do I study">>, session_id |-> NoSession],
    [user_id |-> "mock-user", message |-> <<"Analyze", "my last exam">>, session_id |-> "s1"],
    [user_id |-> "mock-user", message |-> <<"How do I study">>, session_id |-> "s2"] }

Next ==
  \/ \E r \in Requests : HandleMessageWelcome(r.user_id, r.message, r.session_id)
  \/ \E r \in Requests : HandleMessageStart(r.user_id, r.message, r.session_id)
  \/ ModelAnswers
  \/ ModelRequestsTools
  \/ ModelFails
  \/ ExecuteToolCall

Spec == Init /\ [][Next]_vars

\* the steps of a turn in progress: handle_message is one coroutine that runs
\* its statements in order, and each awaited model call returns or raises
TurnStep == ModelAnswers \/ ModelRequestsTools \/ ModelFails \/ ExecuteToolCall

\* Spec with a turn that, once started, keeps running
FairSpec == Spec /\ WF_vars(TurnStep)

\* ------------------------------------------- one turn around process_message
\* what the client wrote in the stored turns of session s1
Themes == {"How do I study", "Give me a quiz", "I want to improve"}

\* session s1 after n turns of handle_message(mock-user, theme, "s1") that the
\* model answered without tools: user and assistant entries in turn, each
\* with its position in its text
StoredHistory(theme, n) ==
  [i \in 1..(2 * n) |->
     IF i % 2 = 1
     THEN [message_type |-> "user", content |-> <<theme, ToString(i)>>,
           tool_calls |-> NoneList]
     ELSE [message_type |-> "assistant",
           content |-> <<"Great progress so far", ToString(i)>>,
           tool_calls |-> SomeList(<<>>)]]

StoredHistories ==
  {<<>>} \cup { [s \in {"s1"} |-> StoredHistory(theme, n)] :
                  theme \in Themes, n \in 1..MaxStoredTurns }

InitTurn ==
  /\ questions = Questions
  /\ users = DefaultUsers
  /\ quiz_responses = SeedResponses
  /\ quizzes = <<>>
  /\ conversation_history \in StoredHistories
  /\ pc = "idle"
  /\ varied_rounds = 0
  /\ request = NoRequest
  /\ messages = <<>>
  /\ response = NoResponse
  /\ iterations = 0
  /\ call_idx = 0
  /\ tool_calls_made = <<>>
  /\ api_calls = <<>>
  /\ pm_result = NoResult
  /\ hm_result = NoReply
  /\ http = NoHttp
  /\ in_flight = {}

\* final texts of the model that the post-processor leaves as they are
ReplyTexts ==
  { <<"Hello">>,
    <<"Great progress so far">>,
    <<"you are", "done">>,
    <<"your", "score", "is", "3/4">>,
    <<"quiz", "complete", "9/10">>,
    <<"result", "80%">>,
    <<"I", "could not", "load it">>,
    <<"Would you like", "a", "quiz">>,
    <<"shall we", "test">>,
    <<"shall we", "reschedule">>,
    <<"shall we">>,
    <<"You scored", "well">>,
    <<"focus on", "math", "weak areas">> }

\* the tools the model may have called in the turn
CalledTools ==
  {"get_latest_test_results", "analyze_performance_by_topic", "generate_adaptive_quiz",
   "generate_bar_chart_data", "get_progress_summary", "identify_error_patterns",
   "get_question_explanation", "update_user_profile"}

\* tool_calls_made lists of at most n calls
CallsMade(n) ==
  UNION { [1..k -> [name : CalledTools, arguments : {<<>>}]] : k \in 0..n }

\* what process_message may return: any text after at most one call, a
\* plain text after up to MaxToolsUsed calls, or an error result
ProcessResults ==
  { NormalResult(text, made) : text \in ReplyTexts, made \in CallsMade(1) }
    \cup { NormalResult(<<"Hello">>, made) : made \in CallsMade(MaxToolsUsed) }
    \cup { ErrorResult(e) : e \in LLMErrors }

\* process_message returns (llm_client.py 461-547) and handle_message
\* finishes the turn
ProcessMessageReturns ==
  /\ pc = "llm"
  /\ \E pm \in ProcessResults : ReturnFromProcess(pm)
  /\ UNCHANGED <<in_flight, questions, http, users, quiz_responses, quizzes, varied_rounds, request, messages,
                 response, iterations, call_idx, tool_calls_made, api_calls>>

NextTurn ==
  \/ \E r \in Requests : HandleMessageWelcome(r.user_id, r.message, r.session_id)
  \/ \E r \in Requests : HandleMessageStart(r.user_id, r.message, r.session_id)
  \/ ProcessMessageReturns

SpecTurn == InitTurn /\ [][NextTurn]_vars

\* ------------------------------------------------------ the quiz endpoints
\* a catalog of n questions: the sections alternate, the difficulties cycle
Catalog(n) ==
  [i \in 1..n |->
     [question_id |-> "q" \o ToString(i), test_type |-> "ABC Certification",
      section |-> IF i % 2 = 1 THEN "math" ELSE "reading",
      topic |-> IF i % 2 = 1 THEN "algebra" ELSE "inference",
      difficulty |-> CASE i % 3 = 1 -> "easy" [] i % 3 = 2 -> "medium" [] OTHER -> "hard",
      correct_answer |-> IF i % 2 = 1 THEN "B" ELSE "C"]]

\* the store after construction over a catalog of up to MaxCatalog questions
InitQuiz ==
  /\ \E n \in 0..MaxCatalog : questions = Catalog(n)
  /\ users = DefaultUsers
  /\ quiz_responses = _seed_sample_data(questions)
  /\ quizzes = <<>>
  /\ conversation_history = <<>>
  /\ pc = "idle"
  /\ varied_rounds = 0
  /\ request = NoRequest
  /\ messages = <<>>
  /\ response = NoResponse
  /\ iterations = 0
  /\ call_idx = 0
  /\ tool_calls_made = <<>>
  /\ api_calls = <<>>
  /\ pm_result = NoResult
  /\ hm_result = NoReply
  /\ http = NoHttp
  /\ in_flight = {}

\* the users and the sizes of the QuizConfig bodies that arrive; 20 is the
\* default of QuizConfig.size
QuizUsers == {"mock-user", "guest"}
Sizes == {-2, -1, 0, 1, 2, 20}

\* main.py 122-134: POST /user/{user_id}/quiz/generate; model_dump() of a
\* body that gives only size leaves section and topics None
create_quiz(user_id, size) ==
  /\ pc = "idle"
  /\ Len(quizzes) < MaxQuizzes
  /\ \E out \in generate_adaptive_quiz(StoreRec, user_id, [size |-> size]) :
       /\ quizzes' = out.store.quizzes
       /\ http' = [endpoint |-> "quiz/generate", user_id |-> user_id, size |-> size,
                   status |-> IF out.raised THEN 500
                              ELSE IF HasKey(out.result, "error") THEN 400 ELSE 200,
                   body |-> out.result]
  /\ UNCHANGED <<in_flight, questions, users, quiz_responses, conversation_history, pc,
                 varied_rounds, request, messages, response, iterations, call_idx,
                 tool_calls_made, api_calls, pm_result, hm_result>>

NextQuiz == \E user_id \in QuizUsers, size \in Sizes : create_quiz(user_id, size)

SpecQuiz == InitQuiz /\ [][NextQuiz]_vars

\* the responses a client may submit: a question of the catalog or an id
\* the catalog does not have, with one of two answers
SubmittedResponses ==
  [question_id : {"q1", "q2", "zz"}, answer : {"B", "C"}]
ResponseLists == UNION { [1..k -> SubmittedResponses] : k \in 0..MaxResponses }

\* main.py 137-145: POST /user/{user_id}/quiz/submit, once
submit_quiz(user_id, quiz_id, responses) ==
  /\ pc = "idle"
  /\ http = NoHttp
  /\ \E out \in submit_quiz_response(StoreRec, user_id, quiz_id, responses) :
       /\ quiz_responses' = out.store.quiz_responses
       /\ http' = [endpoint |-> "quiz/submit", user_id |-> user_id,
                   responses |-> responses,
                   status |-> IF out.raised THEN 500 ELSE 200,
                   body |-> out.result]
  /\ UNCHANGED <<in_flight, questions, users, quizzes, conversation_history, pc,
                 varied_rounds, request, messages, response, iterations, call_idx,
                 tool_calls_made, api_calls, pm_result, hm_result>>

NextSubmit ==
  \E user_id \in QuizUsers, responses \in ResponseLists :
    submit_quiz(user_id, "sample-quiz-1", responses)

SpecSubmit == InitQuiz /\ [][NextSubmit]_vars

\* ------------------------------------------- the store over many operations
\* the store after construction, before any request
InitStore ==
  /\ questions = Questions
  /\ users = DefaultUsers
  /\ quiz_responses = SeedResponses
  /\ quizzes = <<>>
  /\ conversation_history = <<>>
  /\ pc = "idle"
  /\ varied_rounds = 0
  /\ request = NoRequest
  /\ messages = <<>>
  /\ response = NoResponse
  /\ iterations = 0
  /\ call_idx = 0
  /\ tool_calls_made = <<>>
  /\ api_calls = <<>>
  /\ pm_result = NoResult
  /\ hm_result = NoReply
  /\ http = NoHttp
  /\ in_flight = {}

\* the number of messages the store holds, over all sessions
RECURSIVE StoredMessages(_, _)
StoredMessages(ch, sessions) ==
  IF sessions = {} THEN 0
  ELSE LET s == CHOOSE x \in sessions : TRUE
       IN  Len(ch[s]) + StoredMessages(ch, sessions \ {s})

\* the number of quiz responses the store holds for user_id
ResponsesOf(qr, user_id) == IF user_id \in DOMAIN qr THEN Len(qr[user_id]) ELSE 0

\* the chat requests that arrive: without a session (a new one each time)
\* and within session s1
StoreRequests ==
  { [user_id |-> "mock-user", message |-> <<"How do I study">>, session_id |-> NoSession],
    [user_id |-> "mock-user", message |-> <<"How do I study">>, session_id |-> "s1"] }

\* what process_message returns in these turns: an answer or an apology
StoreResults ==
  { NormalResult(<<"Great progress so far">>, <<>>) }
    \cup { ErrorResult(e) : e \in {x \in LLMErrors : x.cls = "RateLimitError"} }

\* the lists a client submits
StoreResponseLists ==
  { << [question_id |-> "q1", answer |-> "B"] >>,
    << [question_id |-> "q2", answer |-> "B"], [question_id |-> "zz", answer |-> "C"] >> }

\* no request is being served
Quiet == pc = "idle" /\ http = NoHttp

\* POST /chat answered with the welcome
StoreChatWelcome ==
  /\ Quiet
  /\ StoredMessages(conversation_history, DOMAIN conversation_history) < 2 * MaxTurns
  /\ \E r \in StoreRequests : HandleMessageWelcome(r.user_id, r.message, r.session_id)

\* POST /chat up to the call of process_message
StoreChatStart ==
  /\ Quiet
  /\ StoredMessages(conversation_history, DOMAIN conversation_history) < 2 * MaxTurns
  /\ \E r \in StoreRequests : HandleMessageStart(r.user_id, r.message, r.session_id)

\* process_message returns and handle_message finishes the turn
StoreChatReturns ==
  /\ pc = "llm"
  /\ \E pm \in StoreResults : ReturnFromProcess(pm)
  /\ UNCHANGED <<in_flight, questions, http, users, quiz_responses, quizzes, varied_rounds, request,
                 messages, response, iterations, call_idx, tool_calls_made, api_calls>>

\* POST /user/{user_id}/quiz/generate
StoreCreateQuiz ==
  /\ Quiet
  /\ \E user_id \in QuizUsers : create_quiz(user_id, 1)

\* POST /user/{user_id}/quiz/submit
StoreSubmitQuiz ==
  \E user_id \in DOMAIN users, responses \in StoreResponseLists :
    /\ ResponsesOf(quiz_responses, user_id) + Len(responses)
         <= ResponsesOf(SeedResponses, user_id) + MaxResponses
    /\ submit_quiz(user_id, "sample-quiz-1", responses)

\* the response of the request being served is sent; the store stays
ResponseSent ==
  /\ pc = "done" \/ (pc = "idle" /\ http # NoHttp)
  /\ pc' = "idle"
  /\ http' = NoHttp
  /\ request' = NoRequest
  /\ hm_result' = NoReply
  /\ BlankTurn
  /\ UNCHANGED <<in_flight, questions, users, quiz_responses, quizzes, conversation_history,
                 varied_rounds>>

NextStore ==
  \/ StoreChatWelcome
  \/ StoreChatStart
  \/ StoreChatReturns
  \/ StoreCreateQuiz
  \/ StoreSubmitQuiz
  \/ ResponseSent

SpecStore == InitStore /\ [][NextStore]_vars

\* ------------------------------------------ the server under concurrent requests
\* the /chat requests clients send, all on session s1
LoopRequests ==
  { [user_id |-> "mock-user", message |-> <<"How do I study">>, session_id |-> "s1"],
    [user_id |-> "mock-user", message |-> <<"Give me a quiz">>, session_id |-> "s1"],
    [user_id |-> "guest", message |-> <<"I want to improve">>, session_id |-> "s1"] }

\* a request reaches the server; it waits until the event loop runs its handler
Receive(r) ==
  /\ r \notin in_flight
  /\ StoredMessages(conversation_history, DOMAIN conversation_history)
       + 2 * Cardinality(in_flight) < 2 * MaxTurns
  /\ in_flight' = in_flight \cup {r}
  /\ UNCHANGED <<questions, users, quiz_responses, quizzes, conversation_history, pc,
                 varied_rounds, request, messages, response, iterations, call_idx,
                 tool_calls_made, api_calls, pm_result, hm_result, http>>

\* the event loop runs handle_message for a request that waits
LoopStart ==
  \E r \in in_flight : HandleMessageStart(r.user_id, r.message, r.session_id)

\* the tool calls the model requests in these turns
LoopCalls ==
  { << [name |-> "generate_adaptive_quiz",
        arguments |-> RawObject([config |-> [size |-> 1]])] >>,
    << [name |-> "update_user_profile",
        arguments |-> RawObject([user_id |-> "mock-user",
                                 updates |-> [study_hours_per_week |-> 20]])],
       DefaultCall >> }

\* the model answers the running turn with a text
LoopModelAnswers ==
  /\ pc = "llm"
  /\ ModelReturns([finish_reason |-> "stop",
                   content |-> PyStr(<<"Great progress so far">>), tool_calls |-> <<>>])
  /\ UNCHANGED varied_rounds

\* the model requests tool calls in its first response of the turn
LoopModelRequestsTools ==
  /\ pc = "llm"
  /\ api_calls = <<>>
  /\ \E calls \in LoopCalls :
       ModelReturns([finish_reason |-> "tool_calls", content |-> PyNone,
                     tool_calls |-> WithIds(calls)])
  /\ UNCHANGED varied_rounds

\* the model invocation raises RateLimitError (llm_client.py 515-529)
LoopModelFails ==
  /\ pc = "llm"
  /\ api_calls' = Append(api_calls, "error")
  /\ \E e \in {x \in LLMErrors : x.cls = "RateLimitError"} :
       ReturnFromProcess(ErrorResult(e))
  /\ UNCHANGED <<in_flight, questions, http, users, quiz_responses, quizzes, varied_rounds,
                 request, messages, response, iterations, call_idx, tool_calls_made>>

\* chat returns the reply of the running turn (main.py 86-101); the request
\* is answered and the coroutine ends
Respond ==
  /\ pc = "done"
  /\ in_flight' = { r \in in_flight :
                      ~ (/\ r.user_id = request.user_id
                         /\ r.message = request.message
                         /\ r.session_id = request.session_id) }
  /\ pc' = "idle"
  /\ request' = NoRequest
  /\ hm_result' = NoReply
  /\ BlankTurn
  /\ UNCHANGED <<questions, users, quiz_responses, quizzes, conversation_history,
                 varied_rounds, http>>

NextLoop ==
  \/ \E r \in LoopRequests : Receive(r)
  \/ LoopStart
  \/ LoopModelAnswers
  \/ LoopModelRequestsTools
  \/ LoopModelFails
  \/ ExecuteToolCall
  \/ Respond

SpecLoop == InitStore /\ [][NextLoop]_vars

\* -------------------------------------------------------------- properties
Last(seq) == seq[Len(seq)]

\* the entries of the conversation written by the for loop, in order
ToolMessages == SelectSeq(messages, LAMBDA m : m.role = "tool")

\* positions of the assistant entries that list tool calls, and of the
\* tool-role entries
CallEntries ==
  {i \in DOMAIN messages : messages[i].role = "assistant" /\ HasKey(messages[i], "tool_calls")}
ResultEntries == {i \in DOMAIN messages : messages[i].role = "tool"}

\* every call listed so far has its result entry right after its assistant
\* entry
RoundsComplete ==
  \A a \in CallEntries : \A n \in 1..Len(messages[a].tool_calls) :
    a + n \in ResultEntries

\* the call cannot be carried out: no such tool, or calling the function raises
FailingCall(call) ==
  call.name \notin tool_map \/ ~ Binds(call.name, call.arguments)

\* the loop was left through its condition with this turn's last response
LoopLeft ==
  /\ pc = "done"
  /\ api_calls # <<>> /\ Last(api_calls) # "error"
  /\ call_idx = 0

\* C1: every executed tool call whose function takes a user_id parameter is
\* carried out with user_id equal to the caller's user_id, for every entry of
\* the tool map
C1_InjectedIdentity ==
  \A i \in DOMAIN tool_calls_made :
    LET call == tool_calls_made[i]
    IN  (AcceptsUserId(call.name) /\ Binds(call.name, call.arguments))
          => call.arguments.d["user_id"] = request.user_id

\* C2: a turn never has more than 5 rounds or more than 6 model invocations,
\* and when every invocation returned a tool-call request and the loop was
\* left, the model was invoked exactly 6 times, 5 rounds were executed, and
\* the calls of the sixth response were not executed
C2_IterationCeiling ==
  /\ iterations <= 5
  /\ Len(api_calls) <= 6
  /\ Cardinality(CallEntries) <= 5
  /\ (LoopLeft /\ \A i \in DOMAIN api_calls : api_calls[i] = "tool_calls")
       => /\ Len(api_calls) = 6
          /\ iterations = 5
          /\ Cardinality(CallEntries) = 5
          /\ RoundsComplete
          /\ Len(tool_calls_made) = Cardinality(ResultEntries)

C2_Witness ==
  /\ LoopLeft
  /\ Len(api_calls) = 6
  /\ \A i \in DOMAIN api_calls : api_calls[i] = "tool_calls"
  /\ Len(tool_calls_made) >= 5

\* C3: when the sixth response of a turn is still a tool-call request,
\* process_message returns through its normal path with that response's
\* content, not through an exception handler
C3_CeilingReturnsNormally ==
  (pc = "done" /\ Len(api_calls) = 6 /\ api_calls[6] = "tool_calls")
    => /\ pm_result.handler = "none"
       /\ "error" \notin pm_result.keys

\* C4: when the first response of a turn has no tool call, the model was
\* invoked once, no tool was executed, users, quiz_responses and quizzes are
\* as they were, the message is the response's text and tools_used is empty
C4_NoToolCallsRequested ==
  (api_calls # <<>> /\ api_calls[1] = "stop")
    => /\ pc = "done"
       /\ Len(api_calls) = 1
       /\ tool_calls_made = <<>>
       /\ ResultEntries = {}
       /\ users = DefaultUsers
       /\ quiz_responses = SeedResponses
       /\ quizzes = <<>>
       /\ pm_result.message = response.content.words
       /\ pm_result.tools_used = <<>>
       /\ pm_result.tool_calls_made = 0
       /\ hm_result.response = response.content.words
       /\ hm_result.tools_used = <<>>

C4_Witness ==
  /\ pc = "done"
  /\ api_calls = <<"stop">>
  /\ response.content.words = <<"I", "COULDN'T FIND", "your results">>
  /\ hm_result.response = <<"I", "COULDN'T FIND", "your results">>

\* C5: the result entries that follow an assistant entry are, in order, the
\* results of its calls, one per call id, each executed call is recorded in
\* the same order, and the model is invoked only when every listed call has
\* its result entry
C5_SequentialToolResults ==
  /\ [](LET calls == CallEntries
            results == ResultEntries
            made == ToolMessages
        IN  /\ \A a \in calls : \A n \in 1..Len(messages[a].tool_calls) :
                 a + n <= Len(messages)
                   => /\ messages[a + n].role = "tool"
                      /\ messages[a + n].tool_call_id = messages[a].tool_calls[n].id
                      /\ messages[a + n].name = messages[a].tool_calls[n].name
            /\ \A i \in results :
                 \E a \in calls : a < i /\ i <= a + Len(messages[a].tool_calls)
            /\ Cardinality({messages[i].tool_call_id : i \in results})
                 = Cardinality(results)
            /\ Len(tool_calls_made) = Len(made)
            /\ \A k \in DOMAIN tool_calls_made : tool_calls_made[k].name = made[k].name
            /\ pc = "llm" => RoundsComplete)
  /\ [][/\ api_calls' # api_calls => RoundsComplete
        /\ Len(tool_calls_made') <= Len(tool_calls_made) + 1
        /\ Len(messages') <= Len(messages) + 1 \/ messages = <<>>]_vars

C5_Witness ==
  /\ Len(api_calls) >= 2
  /\ \E a \in CallEntries :
       /\ Len(messages[a].tool_calls) = 2
       /\ messages[a].tool_calls[1].name # messages[a].tool_calls[2].name
       /\ a + 2 \in ResultEntries
       /\ messages[a + 1].tool_call_id = messages[a].tool_calls[1].id
       /\ messages[a + 2].tool_call_id = messages[a].tool_calls[2].id

\* C6: a call that names no tool or whose function raises has {error: ...}
\* as its result entry, and the step that executes it goes on to the next
\* call of the round or, after the last one, to the next model invocation
C6_FailingToolDoesNotAbort ==
  /\ [](\A k \in DOMAIN tool_calls_made :
          FailingCall(tool_calls_made[k])
            => /\ k \in DOMAIN ToolMessages
               /\ ToolMessages[k].name = tool_calls_made[k].name
               /\ DOMAIN JsonLoads(ToolMessages[k].content) = {"error"})
  /\ [][(/\ Len(tool_calls_made') = Len(tool_calls_made) + 1
         /\ FailingCall(Last(tool_calls_made')))
          => /\ api_calls' = api_calls
             /\ pm_result' = pm_result
             /\ IF call_idx < Len(response.tool_calls)
                THEN pc' = "tools" /\ call_idx' = call_idx + 1
                ELSE pc' = "llm"]_vars

C6_Witness ==
  /\ Len(api_calls) >= 2
  /\ Len(tool_calls_made) >= 2
  /\ tool_calls_made[1].name = "no_such_tool"
  /\ DOMAIN JsonLoads(ToolMessages[1].content) = {"error"}
  /\ ToolMessages[2].tool_call_id = <<1, 2>>

\* C7: a failed model invocation is the last invocation of its turn, the
\* turn has returned through an except clause of process_message and
\* handle_message has returned its envelope; nothing is invoked or executed
\* afterwards
C7_ModelErrorCaughtNotRetried ==
  /\ [](\A i \in DOMAIN api_calls :
          api_calls[i] = "error"
            => /\ i = Len(api_calls)
               /\ pc = "done"
               /\ pm_result.handler # "none"
               /\ "error" \in pm_result.keys
               /\ hm_result.keys # {}
               /\ hm_result.response = pm_result.message)
  /\ [][(api_calls # <<>> /\ Last(api_calls) = "error")
          => UNCHANGED <<api_calls, tool_calls_made, messages, users,
                         quiz_responses, quizzes>>]_vars

C7_Witness ==
  /\ pc = "done"
  /\ Len(api_calls) = 2
  /\ api_calls[2] = "error"
  /\ tool_calls_made # <<>>
  /\ pm_result.handler = "APIError"

\* C8: after a model-service error of any class the result of the turn has
\* an apology message and an error code
C8_ErrorCodeAndApology ==
  (pc = "done" /\ api_calls # <<>> /\ Last(api_calls) = "error")
    => /\ pm_result.message # <<>>
       /\ "error_code" \in pm_result.keys

\* C9: when a tool of the turn returned a payload with total_score and no
\* error, the message returned for the turn contains no 'no data' phrase
C9_NoNoDataAfterScore ==
  (/\ pc = "done"
   /\ \E i \in DOMAIN ToolMessages :
        /\ HasKey(JsonLoads(ToolMessages[i].content), "total_score")
        /\ ~ HasKey(JsonLoads(ToolMessages[i].content), "error"))
    => ~ ClaimedError(hm_result.response)

\* C10: when the loop is left with a text, the message is that text unless
\* it has a 'no data' phrase and this turn's generate_adaptive_quiz, or else
\* get_latest_test_results, returned success: then it is the quiz template,
\* or else the test-results template, of the last such payload
C10_PostProcessorReference ==
  (LoopLeft /\ ~ response.content.isNone)
    => LET last_user == CHOOSE i \in DOMAIN messages :
                          /\ messages[i].role = "user"
                          /\ \A j \in DOMAIN messages :
                               messages[j].role = "user" => j <= i
           turn == SelectSeq(SubSeq(messages, last_user + 1, Len(messages)),
                             LAMBDA m : m.role = "tool")
           Success(name) ==
             SelectSeq(turn, LAMBDA m : /\ m.name = name
                                        /\ HasKey(JsonLoads(m.content), "success")
                                        /\ JsonLoads(m.content).success = TRUE)
           quiz == Success("generate_adaptive_quiz")
           test == Success("get_latest_test_results")
           text == response.content.words
       IN  pm_result.message =
             IF ~ ClaimedError(text) THEN text
             ELSE IF quiz # <<>> THEN QuizTemplate(JsonLoads(Last(quiz).content))
             ELSE IF test # <<>> THEN TestTemplate(JsonLoads(Last(test).content))
             ELSE text

C10_Witness ==
  /\ LoopLeft
  /\ ClaimedError(response.content.words)
  /\ \E i, j \in DOMAIN ToolMessages :
       /\ ToolMessages[i].name = "generate_adaptive_quiz"
       /\ HasKey(JsonLoads(ToolMessages[i].content), "success")
       /\ ToolMessages[j].name = "get_latest_test_results"
       /\ HasKey(JsonLoads(ToolMessages[j].content), "success")
  /\ pm_result.message[1] = "I've created a personalized quiz for you with"
  /\ "s1" \in DOMAIN conversation_history
  /\ Len(conversation_history["s1"]) = 4

\* a turn that went through handle_message's own path (orchestrator.py
\* 48-108) has been answered
TurnAnswered == pc = "done" /\ request.flow = "normal"

\* the tools that have a button set, in the order the tool rules test them
ToolPrecedence ==
  <<"get_latest_test_results", "analyze_performance_by_topic", "generate_adaptive_quiz",
    "generate_bar_chart_data", "generate_study_recommendations", "get_progress_summary",
    "identify_error_patterns", "get_question_explanation">>

ButtonsOfTool(name) ==
  CASE name = "get_latest_test_results" -> TestResultsButtons
    [] name = "analyze_performance_by_topic" -> TopicAnalysisButtons
    [] name = "generate_adaptive_quiz" -> QuizButtons
    [] name = "generate_bar_chart_data" -> ChartButtons
    [] name = "generate_study_recommendations" -> ChartButtons
    [] name = "get_progress_summary" -> ProgressButtons
    [] name = "identify_error_patterns" -> ErrorPatternButtons
    [] name = "get_question_explanation" -> ExplanationButtons

\* the calls of the turn to tools that have a button set, in call order
CallsWithButtons ==
  SelectSeq(hm_result.tools_used,
            LAMBDA name : \E i \in DOMAIN ToolPrecedence : ToolPrecedence[i] = name)

ToolSets ==
  {TestResultsButtons, TopicAnalysisButtons, QuizButtons, ChartButtons, ProgressButtons,
   ErrorPatternButtons, ExplanationButtons}
HistorySets ==
  {QuizCompleteButtons(9, 10), QuizCompleteButtons(3, 4), QuizCompleteButtons(0, 20),
   PostQuizButtons, ImprovementButtons}
TextSets ==
  {DataIssueButtons, ConfirmQuizButtons, ConfirmTestButtons, ConfirmScheduleButtons,
   ConfirmButtons, ImprovementScenarioButtons, AnalysisButtons, StreakButtons}

\* which kinds of rule match the turn's tools, history and response text
ToolRuleMatches == ToolRule(<<>>, hm_result.tools_used).matched
HistoryRuleMatches == HistoryRule(<<>>, hm_result.response, request.history).matched
TextRuleMatches == TextRule(<<>>, hm_result.response, hm_result.tools_used).matched

ClientSessions == {r.session_id : r \in Requests} \ {NoSession}

\* the turn under way, or just answered, began on a session with no history
BrandNewSession == pc # "idle" /\ request.history = <<>>

StoredBefore ==
  SubSeq(conversation_history[request.session_id], 1,
         Len(conversation_history[request.session_id]) - 1)
StoredDialogue ==
  SelectSeq(StoredBefore, LAMBDA m : m.message_type \in {"user", "assistant"})

\* the entries of the model context between the system prompt and the
\* user message
ContextHistory == SubSeq(messages, 2, Len(messages) - 1)

\* C14: the context built for a turn holds, between the system prompt and
\* the current user message, at most 10 entries; they are the most recent
\* user and assistant messages stored for the session, in stored order, and
\* none older
C14_ContextWindow ==
  pc = "llm" =>
    LET n == Len(ContextHistory)
        skipped == Len(StoredDialogue) - n
    IN  /\ messages[1].role = "system"
        /\ Last(messages).role = "user"
        /\ n <= 10
        /\ skipped >= 0
        /\ \A i \in 1..n :
             /\ ContextHistory[i].role = StoredDialogue[skipped + i].message_type
             /\ ContextHistory[i].content = PyStr(StoredDialogue[skipped + i].content)

\* twelve messages were stored and the context holds the last ten of them
C14_Witness ==
  /\ pc = "llm"
  /\ Len(StoredDialogue) = 12
  /\ Len(ContextHistory) = 10
  /\ ContextHistory[1].content = PyStr(StoredDialogue[3].content)
  /\ ContextHistory[1].content # PyStr(StoredDialogue[1].content)

\* the quiz endpoint answered with a quiz
QuizReturned == http.endpoint = "quiz/generate" /\ http.status = 200

\* C15: a successfully generated quiz holds at most size questions, and no
\* question twice, for every requested size, catalog and response history
C15_QuizWithinSize ==
  QuizReturned =>
    /\ Len(http.body.questions) <= http.size
    /\ \A i, j \in DOMAIN http.body.questions :
         i # j => http.body.questions[i] # http.body.questions[j]

\* the responses of the request that match the catalog's correct answers
MatchingResponses ==
  {i \in DOMAIN http.responses :
     \E k \in DOMAIN questions :
       /\ questions[k].question_id = http.responses[i].question_id
       /\ questions[k].correct_answer = http.responses[i].answer}

C17_QuizOr400 ==
  http.endpoint = "quiz/generate" =>
    /\ http.status \in {200, 400}
    /\ http.status = 200 => HasKey(http.body, "quiz_id")

\* a turn is in progress: handle_message awaits process_message
TurnStarted == pc \in {"llm", "tools"}

\* handle_message has returned an object with the session id of the turn
TurnReturned ==
  /\ pc = "done"
  /\ "session_id" \in hm_result.keys /\ "response" \in hm_result.keys
  /\ hm_result.session_id = request.session_id

\* C18: every started turn eventually completes: whatever the model returns
\* or raises and whatever the tools return or raise, handle_message returns
\* an object carrying the session id and a non-empty response text
C18_TurnAnsweredNonEmpty ==
  TurnStarted ~> (TurnReturned /\ hm_result.response # <<>>)

\* the part of C18 the code does keep: every started turn returns an object
\* that carries the session id
C18_TurnCompletes == TurnStarted ~> TurnReturned

\* the model's answer was the empty text and the turn returned it
C18_EmptyAnswer ==
  /\ TurnReturned
  /\ hm_result.response = <<>>
  /\ api_calls # <<>> /\ api_calls[Len(api_calls)] = "stop"

\* old is a prefix of new: every entry of old is in new at the same position
IsPrefix(old, new) ==
  /\ Len(old) <= Len(new)
  /\ \A i \in DOMAIN old : new[i] = old[i]

\* every list of old is kept by new, entry for entry
ListsKept(old, new) ==
  \A k \in DOMAIN old : k \in DOMAIN new /\ IsPrefix(old[k], new[k])

\* C19: runtime records are append-only and never evicted: in every step of
\* every operation each stored conversation message stays in its session's
\* history at the same position with the same content, each stored quiz
\* response stays in its user's list, and each saved quiz stays retrievable
\* by its id
C19_AppendOnly ==
  [][ /\ ListsKept(conversation_history, conversation_history')
      /\ ListsKept(quiz_responses, quiz_responses')
      /\ IsPrefix(quizzes, quizzes') ]_vars

\* after two turns in session s1, a second saved quiz and a submission on
\* top of the seeded responses, with no request being served
C19_Witness ==
  /\ Quiet
  /\ "s1" \in DOMAIN conversation_history /\ Len(conversation_history["s1"]) >= 4
  /\ Len(quizzes) >= 2
  /\ \E u \in DOMAIN users :
       ResponsesOf(quiz_responses, u) > ResponsesOf(SeedResponses, u)

\* the for loop is about to execute update_user_profile with arguments that
\* name a user the store does not know
UpdatingUnknownUser ==
  /\ pc = "tools"
  /\ response.tool_calls[call_idx].name = "update_user_profile"
  /\ LET arguments == ParseArguments(response.tool_calls[call_idx].arguments)
     IN  /\ arguments.isDict
         /\ DOMAIN arguments.d = {"user_id", "updates"}
         /\ arguments.d["user_id"] \notin DOMAIN users

\* the payload of the tool entry the step appends to the conversation
AppendedPayload == JsonLoads(messages'[Len(messages')].content)

\* C20: the set of users is fixed at runtime: no step creates or deletes a
\* user or changes a user's user_id or email, so every record stays keyed by
\* its own user_id; and a profile update for a user id the store does not
\* know returns an error and changes nothing
C20_UsersFixed ==
  [][ /\ DOMAIN users' = DOMAIN users
      /\ \A u \in DOMAIN users :
           /\ users'[u].user_id = u
           /\ users'[u].user_id = users[u].user_id
           /\ users'[u].email = users[u].email
      /\ UpdatingUnknownUser =>
           /\ Len(messages') = Len(messages) + 1
           /\ HasKey(AppendedPayload, "error")
           /\ AppendedPayload.error = "User not found"
           /\ <<users, quiz_responses, quizzes, questions, conversation_history>>'
                = <<users, quiz_responses, quizzes, questions, conversation_history>> ]_vars

\* update_user_profile was given a user_id and an email among the updates of
\* a known user: the hours changed, the key and the email did not
C20_Witness ==
  /\ \E i \in DOMAIN tool_calls_made :
       /\ tool_calls_made[i].name = "update_user_profile"
       /\ {"user_id", "email"} \subseteq DOMAIN tool_calls_made[i].arguments.d["updates"]
  /\ users["mock-user"].study_hours_per_week = 30
  /\ users["mock-user"].user_id = "mock-user"
  /\ users["mock-user"].email = DefaultUsers["mock-user"].email

\* update_user_profile ran for a user id the store does not know
C20_UnknownUpdated ==
  \E i \in DOMAIN tool_calls_made :
    /\ tool_calls_made[i].name = "update_user_profile"
    /\ HasKey(tool_calls_made[i].arguments.d, "user_id")
    /\ tool_calls_made[i].arguments.d["user_id"] \notin DOMAIN users

\* the Data Store
Store == <<questions, users, quiz_responses, quizzes, conversation_history>>

\* C21: a turn is suspended at most while it waits on a model call: between
\* two model calls every step that touches the store, the conversation or
\* the position of the round is the running request executing the next tool
\* call of its round; other requests only wait
C21_ToolRoundUninterrupted ==
  [][ pc = "tools" =>
        /\ request' = request
        /\ response' = response
        /\ in_flight \subseteq in_flight'
        /\ conversation_history' # conversation_history => pc' = "done"
        /\ \/ <<Store, messages, tool_calls_made, call_idx, pc>>'
                = <<Store, messages, tool_calls_made, call_idx, pc>>
           \/ pc' = "done"
           \/ /\ tool_calls_made' =
                   Append(tool_calls_made,
                          [name |-> response.tool_calls[call_idx].name,
                           arguments |-> tool_calls_made'[Len(tool_calls_made')].arguments])
              /\ Len(messages') = Len(messages) + 1
              /\ messages'[Len(messages')].tool_call_id = response.tool_calls[call_idx].id
              /\ IF call_idx < Len(response.tool_calls)
                 THEN pc' = "tools" /\ call_idx' = call_idx + 1
                 ELSE pc' = "llm" ]_vars

\* the first call of a round has changed mock-user's record, the second is
\* about to run, and another request waits for the event loop
C21_Witness ==
  /\ pc = "tools" /\ call_idx = 2
  /\ tool_calls_made[1].name = "update_user_profile"
  /\ users["mock-user"].study_hours_per_week = 20
  /\ \E r \in in_flight : r.message # request.message

\* the payloads of the turn's successful generate_adaptive_quiz calls
QuizPayloads ==
  LET entries == ToolEntries(messages, "generate_adaptive_quiz")
  IN  { JsonLoads(entries[i].content) :
          i \in { j \in DOMAIN entries : IsQuizSuccess(JsonLoads(entries[j].content)) } }

\* process_message ended the turn in one of its except clauses
TurnFailed == pc = "done" /\ "error" \in pm_result.keys

\* C22: tool mutations are not transactional with the turn: the step in
\* which a model invocation fails leaves users, quiz responses and quizzes as
\* the turn's tools left them, and after the turn has ended with its error
\* result every quiz a tool of the turn saved is still in the store
C22_NoRollback ==
  [][ (pc = "llm" /\ TurnFailed') =>
        /\ <<questions, users, quiz_responses, quizzes>>'
             = <<questions, users, quiz_responses, quizzes>>
        /\ \A payload \in QuizPayloads' :
             \E i \in DOMAIN quizzes' : quizzes'[i].quiz_id = payload.quiz_id ]_vars

\* generate_adaptive_quiz saved a quiz, the model invocation that followed
\* failed, and the turn ended with the error result
C22_Witness ==
  /\ TurnFailed
  /\ api_calls # <<>> /\ api_calls[Len(api_calls)] = "error"
  /\ QuizPayloads # {}
  /\ quizzes # <<>>

\* the questions that match the test-type filter of the quiz request, or,
\* when none does, the whole catalog (no section is requested here)
MatchingQuestions ==
  LET first_try == get_questions(questions,
                                 [test_type |-> users[http.user_id].test_type], 1000)
  IN  IF first_try = <<>> THEN get_questions(questions, <<>>, 1000) ELSE first_try

\* the question ids of the user's 20 most recent responses
RecentlySeen ==
  LET last20 == LastN(get_quiz_responses(quiz_responses, http.user_id), 20)
  IN  { last20[i].question_id : i \in DOMAIN last20 }

\* the ids of the matching questions, all of them and the ones not recently seen
MatchingIds == { MatchingQuestions[i].question_id : i \in DOMAIN MatchingQuestions }
UnseenIds == MatchingIds \ RecentlySeen

\* C23: a generated quiz leaves out the recently seen questions; whenever
\* that leaves fewer questions than the requested size the quiz is drawn from
\* all matching questions; so generation fails with 'No questions available
\* matching criteria' only when no question matches the filters at all
C23_RecentExcludedElseAll ==
  (http.endpoint = "quiz/generate" /\ http.user_id \in DOMAIN users /\ http.status # 500) =>
    LET drawn_from == IF Cardinality(UnseenIds) < http.size THEN MatchingIds ELSE UnseenIds
    IN  IF drawn_from = {}
        THEN /\ http.status = 400
             /\ http.body.error = "No questions available matching criteria"
        ELSE /\ http.status = 200
             /\ { http.body.questions[i] : i \in DOMAIN http.body.questions } \subseteq drawn_from

\* what the code does: the quiz is drawn from all matching questions only
\* when there are at least as many of them as the requested size; otherwise
\* it is drawn from the unseen ones, and fails when there is none
C23_AllOnlyWhenEnough ==
  (http.endpoint = "quiz/generate" /\ http.user_id \in DOMAIN users /\ http.status # 500) =>
    LET drawn_from == IF /\ Cardinality(UnseenIds) < http.size
                         /\ Cardinality(MatchingIds) >= http.size
                      THEN MatchingIds ELSE UnseenIds
    IN  IF drawn_from = {}
        THEN /\ http.status = 400
             /\ http.body.error = "No questions available matching criteria"
        ELSE /\ http.status = 200
             /\ { http.body.questions[i] : i \in DOMAIN http.body.questions } \subseteq drawn_from

\* every question that matches was recently seen and there are fewer of them
\* than the requested size: the request fails though questions match
C23_AllSeenTooFew ==
  /\ http.endpoint = "quiz/generate" /\ http.user_id \in DOMAIN users
  /\ MatchingIds # {} /\ UnseenIds = {} /\ Cardinality(MatchingIds) < http.size
  /\ http.status = 400

\* process_message has returned in this turn
ProcessReturned == pc = "done" /\ pm_result.keys # {}

\* C24: on every return path of process_message the reported tools_used are
\* the names of the tool calls executed in the turn, in execution order, and
\* tool_calls_made is their number
C24_ReportedToolsAreExecuted ==
  ProcessReturned =>
    /\ pm_result.tools_used = [i \in DOMAIN tool_calls_made |-> tool_calls_made[i].name]
    /\ pm_result.tool_calls_made = Len(tool_calls_made)

\* what the code keeps: the report is exact on the path that returns the
\* model's answer; the except clauses report no tool at all
C24_ReportedOnNormalReturn ==
  ProcessReturned =>
    IF "error" \in pm_result.keys
    THEN pm_result.tools_used = <<>> /\ pm_result.tool_calls_made = 0
    ELSE /\ pm_result.tools_used =
              [i \in DOMAIN tool_calls_made |-> tool_calls_made[i].name]
         /\ pm_result.tool_calls_made = Len(tool_calls_made)

\* a model invocation failed after tools had run, and none is reported
C24_ToolsRanUnreported ==
  /\ ProcessReturned /\ "error" \in pm_result.keys
  /\ tool_calls_made # <<>>
  /\ pm_result.tool_calls_made = 0

\* the arguments string of the tool call the for loop is about to execute
PendingArguments == response.tool_calls[call_idx].arguments

\* C25: whatever arguments string the model supplies for a tool call (a JSON
\* object, invalid JSON, or JSON that is not an object), the call is resolved
\* to a tool-role result entry and the turn continues: the step appends the
\* entry of the call and goes on to the next call or to the next model
\* invocation
C25_MalformedArgumentsNeverAbort ==
  [][ pc = "tools" =>
        /\ pc' \in {"tools", "llm"}
        /\ Len(messages') = Len(messages) + 1
        /\ messages'[Len(messages')].role = "tool"
        /\ messages'[Len(messages')].tool_call_id = response.tool_calls[call_idx].id ]_vars

\* what the code keeps: the same for every arguments string the injection
\* of user_id can work on (an object or invalid JSON), and for every tool
\* whose schema has no user_id
C25_DictArgumentsNeverAbort ==
  [][ (/\ pc = "tools"
       /\ \/ PendingArguments.fmt # "nonobject"
          \/ "user_id" \notin _get_function_params(response.tool_calls[call_idx].name))
      => /\ pc' \in {"tools", "llm"}
         /\ Len(messages') = Len(messages) + 1
         /\ messages'[Len(messages')].role = "tool"
         /\ messages'[Len(messages')].tool_call_id = response.tool_calls[call_idx].id ]_vars

\* a call whose arguments were JSON but no object ended the turn in
\* process_message's except clause, without a tool entry and without
\* another model invocation
C25_NonObjectAborted ==
  /\ pc = "done"
  /\ response.finish_reason = "tool_calls"
  /\ call_idx \in DOMAIN response.tool_calls
  /\ PendingArguments.fmt = "nonobject"
  /\ "error" \in pm_result.keys
  /\ api_calls[Len(api_calls)] = "tool_calls"

\* a turn is being served: its user message is stored, its reply is not
TurnRunning == pc \in {"llm", "tools"}

\* in history h every user message but the last entry is directly followed
\* by a reply
RepliesFollow(h) ==
  \A i \in DOMAIN h :
    (h[i].message_type = "user" /\ i < Len(h))
      => h[i + 1].message_type \in {"assistant", "system"}

\* history h has no user message that waits for its reply
NonePending(h) == RepliesFollow(h) /\ (h # <<>> => h[Len(h)].message_type # "user")

\* C26: under any interleaving of concurrent /chat requests on one session
\* the stored history keeps each turn together: a user message is directly
\* followed by the reply of its own turn, the only user message without a
\* reply is that of the running turn, and the history a turn reads for its
\* model context holds no user message whose reply is pending
C26_TurnsStayTogether ==
  /\ [](\A s \in DOMAIN conversation_history :
          LET h == conversation_history[s]
          IN  /\ RepliesFollow(h)
              /\ h[Len(h)].message_type = "user"
                   => /\ TurnRunning
                      /\ request.session_id = s
                      /\ request.message = h[Len(h)].content)
  /\ [][ /\ (TurnRunning /\ pc' = "done") =>
             LET h == conversation_history'[request.session_id]
             IN  /\ Len(h) >= 2
                 /\ h[Len(h) - 1] = [message_type |-> "user", content |-> request.message,
                                     tool_calls |-> NoneList]
                 /\ h[Len(h)].message_type = "assistant"
                 /\ h[Len(h)].content = hm_result'.response
                 /\ SubSeq(h, 1, Len(h) - 1) = conversation_history[request.session_id]
         /\ (pc = "idle" /\ TurnRunning') =>
             /\ NonePending(IF request'.session_id \in DOMAIN conversation_history
                            THEN conversation_history[request'.session_id] ELSE <<>>)
             /\ \A i \in DOMAIN request'.history :
                  request'.history[i].role = "user"
                    => /\ i < Len(request'.history)
                       /\ request'.history[i + 1].role = "assistant" ]_vars

\* a turn on session s1 has stored its user message and run its tools, and
\* another request on s1 waits for the event loop
C26_Witness ==
  /\ pc = "llm" /\ api_calls # <<>>
  /\ request.session_id = "s1"
  /\ \E r \in in_flight : r.session_id = "s1" /\ r.message # request.message

\* two turns of concurrent requests on s1 are stored one after the other
C26_TwoTurnsStored ==
  /\ pc = "done"
  /\ Len(conversation_history["s1"]) = 4
  /\ conversation_history["s1"][1].content # conversation_history["s1"][3].content

\* the texts user_id sends; no text is sent by two users
SentBy(user_id) == { r.message : r \in { x \in LoopRequests : x.user_id = user_id } }

\* C27: conversation history never crosses users: the user messages in the
\* history placed in the model context of a request made with user_id U were
\* all sent with user_id U, also when the session id of the request was
\* first used with another user_id
C27_HistoryOfSameUser ==
  TurnRunning =>
    /\ \A i \in DOMAIN request.history :
         request.history[i].role = "user"
           => request.history[i].content.words \in SentBy(request.user_id)
    /\ \A i \in 2..(Len(messages) - 1) :
         (HasKey(messages[i], "role") /\ messages[i].role = "user"
            /\ i < 2 + Len(request.history))
           => messages[i].content.words \in SentBy(request.user_id)

\* the request of guest on the session mock-user used is served with
\* mock-user's turn in its model context
C27_OtherUsersTurnInContext ==
  /\ TurnRunning
  /\ request.user_id = "guest"
  /\ \E i \in DOMAIN request.history :
       /\ request.history[i].role = "user"
       /\ request.history[i].content.words \in SentBy("mock-user")
  /\ \E i \in DOMAIN messages :
       /\ HasKey(messages[i], "role") /\ messages[i].role = "user"
       /\ messages[i].content.words \in SentBy("mock-user")

\* the stored history of the session of the request being served
SessionHistory ==
  IF request.session_id \in DOMAIN conversation_history
  THEN conversation_history[request.session_id] ELSE <<>>

\* the history of the session holds the user message of the request, with
\* the text handle_message was given
MessageRecorded ==
  \E i \in DOMAIN SessionHistory :
    /\ SessionHistory[i].message_type = "user"
    /\ SessionHistory[i].content = request.message

\* C28: every user message passed to handle_message is recorded in its
\* session's history with its original text before the response is
\* returned, the first message of a session included
C28_UserMessageRecorded == pc = "done" => MessageRecorded

\* what the code keeps: the message is recorded, with its original text and
\* before the model is called, in every turn but the one answered with
\* the welcome
C28_RecordedUnlessWelcome ==
  /\ pc \in {"llm", "tools"} => MessageRecorded
  /\ pc = "done" => (MessageRecorded <=> request.flow # "welcome")
  /\ (pc # "idle" /\ request.flow = "normal"
        /\ EnrichedMessage(request.user_id, request.message) # request.message)
       => \A i \in DOMAIN SessionHistory :
            SessionHistory[i].content # EnrichedMessage(request.user_id, request.message)

\* the first message of a known user without a session id was answered
\* with the welcome and is in no history
C28_WelcomeDropsMessage ==
  /\ pc = "done" /\ hm_result.is_welcome
  /\ request.message # <<>>
  /\ \A s \in DOMAIN conversation_history : \A i \in DOMAIN conversation_history[s] :
       conversation_history[s][i].message_type # "user"

\* handle_message returned through one of its return statements with
\* ui_elements (not through its except clause)
ReturnedWithUi == pc = "done" /\ "ui_elements" \in hm_result.keys

\* C29: every response handle_message returns through a non-exception path
\* (the welcome, the first message of an unknown user, a normal turn) carries
\* a non-empty quick_replies list, whatever the tools used and the text
C29_QuickRepliesNeverEmpty == ReturnedWithUi => hm_result.quick_replies # <<>>

\* what the code keeps: the list is non-empty for the welcome and for a
\* normal turn; the first message of an unknown user gets buttons only when
\* generate_adaptive_quiz was among the tools used
C29_QuickRepliesUnlessUnknownUser ==
  ReturnedWithUi =>
    IF request.flow = "session_start"
    THEN hm_result.quick_replies # <<>>
           <=> \E i \in DOMAIN hm_result.tools_used :
                 hm_result.tools_used[i] = "generate_adaptive_quiz"
    ELSE hm_result.quick_replies # <<>>

\* the first message of an unknown user was answered without any button
C29_UnknownUserNoButtons ==
  /\ ReturnedWithUi
  /\ request.flow = "session_start"
  /\ request.user_id \notin DOMAIN users
  /\ hm_result.response # <<>>
  /\ hm_result.quick_replies = <<>>

\* the submitted responses whose question id the catalog has, in order
KnownSubmitted ==
  SelectSeq(http.responses,
            LAMBDA r : \E k \in DOMAIN questions : questions[k].question_id = r.question_id)

\* the list of user_id before the submission: what _seed_sample_data left
ListBefore(user_id) == get_quiz_responses(_seed_sample_data(questions), user_id)

\* the records the submission appended to the list of its user
Appended ==
  LET now == get_quiz_responses(quiz_responses, http.user_id)
  IN  SubSeq(now, Len(ListBefore(http.user_id)) + 1, Len(now))

====
